---- MODULE Spec2Model ----
(***************************************************************************)
(* Reactive templating core of web-pjs (class Manager, class EvalStack):   *)
(* the proxy store (ensureManagedObject, getUnmanaged, registerCallback,   *)
(* triggerChange), the {{expr}} text binder (replaceMatches/replace), the  *)
(* p:for list engine (init/instantiate and its container listener) and     *)
(* the p:bind two-way binding (init/p:bind).                               *)
(*                                                                         *)
(* The JavaScript heap is modelled explicitly: raw objects are named by    *)
(* strings, proxies by the order in which `new Proxy` created them, and    *)
(* the arrays held in objCallbacks by the order in which they were         *)
(* created (ensureManagedObject shares one array between a parent and the  *)
(* child it wraps, so the identity of the array matters).                  *)
(***************************************************************************)
EXTENDS Integers, Sequences, FiniteSets, TLC

VARIABLES
    heap,               \* the raw data objects: object -> property -> value
    managedValues,      \* Manager.managedValues: raw object -> its proxy (0: none)
    managedProxies,     \* Manager.managedProxies: proxy -> raw object ("" : none)
    nextProxy,          \* number of proxies `new Proxy` has created, plus one
    objCallbacks,       \* Manager.objCallbacks: object -> the array it maps to (0: none)
    cbLists,            \* the arrays objCallbacks refers to, by identity
    nextList,           \* number of such arrays created, plus one
    namedObjCallbacks,  \* Manager.namedObjCallbacks: object -> key -> listeners
    done,               \* EvalStack.done
    stack,              \* EvalStack.stack
    onIntervalCallbacks,\* Manager._onIntervalCallbacks: the polling loop
    objTextNodes,       \* Manager.objTextNodes: the text nodes replaceMatches has seen
    nodeValue,          \* text node -> its nodeValue
    entryValueCache,    \* text node -> entry -> cached value (replace's closure)
    elementBindings,    \* Bindings._elementBindings: text node -> the value its
                        \* element's scope binds (x in the document, the item in a clone)
    instances,          \* the p:for's Map instances: index -> instance
    dom,                \* the elements that follow the p:for element in its parent
    elementIsCheckbox,  \* the p:bind control is <input type="checkbox">
    elementValue,       \* the control's value (its checked, for a checkbox)
    writeInputValueBack,\* the flag of the p:bind closure
    sets,               \* history: set handlers run in this handler
    controlWrites,      \* history: writes of the control's value in this handler
    exc,                \* an exception is propagating out of the running handler
    ran,                \* history: node -> recompute passes run for it in this handler
    writes,             \* history: text node -> nodeValue writes in this handler
    leafAtBind,         \* history: text node -> value of its first entry when bound
    calls,              \* history: the user listeners invoked by the running handler
    firstWrapper,       \* history: the first wrapper manage returned for an object
    disposers,          \* the disposers registerCallback returned to the application
    removed,            \* history: the disposers init returned have been called
    disposerCalls,      \* history: instance id -> runs of its remove_self_from_everything
    bindings,           \* Bindings.bindings of each scope: name -> the value bound (Hole: none)
    inherited_bindings, \* Bindings.inherited_bindings of each scope
    logged,             \* history: console.error and console.warn calls of this handler
    inputListeners,     \* the input listeners addEventListener has put on the control
    recording,          \* history: begin() was called and end() not yet since
    attributes,         \* the directive attributes of the elements of the document
    detached,           \* the elements removeChild has taken out of their parent
    initializedElements,\* Manager.initializedElements
    trace,              \* history: the directive steps init has taken, in order
    _firstDrawCompleted,\* Manager._firstDrawCompleted
    _firstDrawCallbacks,\* Manager._firstDrawCallbacks: element -> its entry
    observing,          \* the elements a connected IntersectionObserver observes
    firstDrawRuns,      \* history: the first-draw callbacks run so far, in order
    intersections,      \* history: element -> intersecting signals delivered for it
    firstDrawRegs,      \* history: the callbacks handed to _onFirstDraw so far, in order
    rawData,            \* make_observable: the data objects it was given, object -> its slots
    observables,        \* make_observable: the objects that carry __isObservable
    copied,             \* history: what the last copyRaw returned
    seededWith,         \* history: the listeners of (x,'o') when x.o was first wrapped by a read
    objKind,            \* make_observable: per object, none (not created), object or value (a valueObject)
    _parent,            \* obj._parent of each observable (the empty string: null)
    _callbacks,         \* obj._callbacks of each observable
    _callbacks_ongoing, \* obj._callbacks_ongoing of each observable
    properties,         \* the public properties of each observable (the empty string: undefined)
    removers,           \* the removers onChange returned to the application
    notified,           \* history: the callbacks the running set invoked, with the object they were found on
    tooltip_element,    \* per anchor: the closure's tooltip_element is not null
    tooltip_time_to_show_timer,\* per anchor: the show timer is pending
    tooltipsInBody,     \* per anchor: the p-tooltip elements in document.body made for it
    pointerOver,        \* the anchor the pointer is over (the empty string: none)
    inDocument,         \* the anchors that are in the document
    earlyWide,          \* history: the listeners registered object-wide on objects not wrapped yet, with the object
    lastOp              \* history: the operation that produced this state

vars == <<heap, managedValues, managedProxies, nextProxy, objCallbacks, cbLists,
          nextList, namedObjCallbacks, done, stack, onIntervalCallbacks,
          objTextNodes, nodeValue, entryValueCache, elementBindings, instances,
          dom, elementIsCheckbox, elementValue, writeInputValueBack, sets,
          controlWrites, exc, ran, writes, leafAtBind, calls, firstWrapper,
          disposers,
          removed,
          disposerCalls,
          bindings,
          inherited_bindings,
          logged,
          inputListeners,
          recording,
          attributes,
          detached,
          initializedElements,
          trace,
          _firstDrawCompleted,
          _firstDrawCallbacks,
          observing,
          firstDrawRuns,
          intersections,
          firstDrawRegs,
          rawData,
          observables,
          copied,
          seededWith,
          objKind,
          _parent,
          _callbacks,
          _callbacks_ongoing,
          properties,
          removers,
          notified,
          tooltip_element,
          tooltip_time_to_show_timer,
          tooltipsInBody,
          pointerOver,
          inDocument,
          earlyWide, lastOp>>

----------------------------------------------------------------------------
(* Bounds of the model *)

MaxProxy == 4       \* proxies that may be created
MaxLists == 3       \* callback arrays that may be created
MaxRegs == 3        \* listener registrations the application makes
MaxDisposerCalls == 2   \* calls of one disposer
MaxBound == 1       \* text nodes the document binds
MaxIdx == 3         \* largest array index the application uses
NumRoots == 2       \* root elements of the p:for template
MaxOps == 4         \* operations the application performs on the p:for's array
MaxInherit == 2     \* scopes one scope inherits
MaxAdd == 2         \* bindings in the array or map given to add
MaxStack == 3       \* reads recorded in one recording window
MaxItems == 2       \* items of the array a p:for of the document iterates
MaxSignals == 2     \* intersecting signals delivered for one element
MaxRematch == 1     \* calls of replaceMatches the application makes itself
MaxLen == 2         \* elements of the array given to make_observable
MaxFresh == 2       \* values assigned to properties of observables
MaxObsRegs == 2     \* onChange registrations the application makes
MaxCallbacks == 2   \* callbacks an observable holds after inheriting

----------------------------------------------------------------------------
(* JavaScript values *)

Num(k) == [t |-> "num", n |-> k, o |-> ""]
NaN == [t |-> "nan", n |-> 0, o |-> ""]
Undef == [t |-> "undef", n |-> 0, o |-> ""]
Fn == [t |-> "fn", n |-> 0, o |-> ""]
Str(str) == [t |-> "str", n |-> 0, o |-> str]
Bool(b) == [t |-> "bool", n |-> IF b THEN 1 ELSE 0, o |-> ""]
RawV(obj) == [t |-> "raw", n |-> 0, o |-> obj]
ProxyV(p) == [t |-> "proxy", n |-> p, o |-> ""]
\* an absent property (not a value: Reflect.get turns it into undefined)
Hole == [t |-> "hole", n |-> 0, o |-> ""]

\* the === operator: NaN is not identical to itself
StrictEq(a, b) == a = b /\ a.t # "nan"

IsObject(v) == v.t \in {"raw", "proxy"}

\* the raw objects of the model; "arr" is an Array
Obj == {"x", "y", "z", "arr"}
IsArray(obj) == obj = "arr"
\* the property key of array index i, and the property keys of the model
IdxKey(i) == ToString(i)
IndexKeys == {IdxKey(i) : i \in 0..MaxIdx}
Keys == {"a", "b", "o", "length", "-1"} \cup IndexKeys
\* the keys of the Map instances: what parseFloat makes of a property key
IdxKeys == {Num(i) : i \in 0..MaxIdx} \cup {NaN}
parseFloat(prop) ==
    IF prop \in IndexKeys THEN Num(CHOOSE i \in 0..MaxIdx : IdxKey(i) = prop)
    ELSE IF prop = "-1" THEN Num(-1)
    ELSE NaN
\* the instances a p:for can hold at one time, and one more
MaxInst == MaxIdx + 3
\* the text node of the clones of instance k
CloneText(k) == "c" \o ToString(k)
\* the text nodes of the document, and those of the p:for's clones
DocNodes == {"t1", "t2", "t3", "t4"}
\* the control that carries p:bind
Control == "input"
\* the attributes of the document that hold {{...}}
AttrNodes == {"at1"}
\* text nodes whose expression reads a length or a method through a wrapper
WhitelistNodes == {"len", "fn"}
Nodes == DocNodes \cup AttrNodes \cup WhitelistNodes \cup {Control}
         \cup {CloneText(k) : k \in 1..MaxInst}
\* the {{...}} entries of their templates
Entries == {"x.a", "x.b", "x.a+x.b", "x.o.a", "n.a", "x.length"}
Ref == {RawV(obj) : obj \in Obj} \cup {ProxyV(p) : p \in 1..MaxProxy}
NoKey == "<null>"

\* a callback: its kind and which one of that kind it is
Cb(kind, id) == [k |-> kind, n |-> id]
\* callbackOnValueChange of one entry of an attribute
AttrCb(n, entry) == [k |-> "attr", n |-> n, e |-> entry]
\* the listener functions of the application; "boom" throws when called
Listeners == {"f", "g", "boom"}
Throws(cb) == cb.k = "user" /\ cb.n = "boom"

ReflectGet(h, target, prop) ==
    IF prop \in DOMAIN h[target] /\ h[target][prop] # Hole THEN h[target][prop]
    ELSE Undef

\* Reflect.set; on an Array a write of an index extends length and a write
\* of length deletes the elements from that index on
ReflectSet(h, target, prop, value) ==
    IF IsArray(target) /\ prop = "length"
    THEN [h EXCEPT ![target] =
            [key \in Keys |->
               IF key = "length" THEN value
               ELSE IF key \in IndexKeys /\ parseFloat(key).n >= value.n THEN Hole
               ELSE @[key]]]
    ELSE IF IsArray(target) /\ prop \in IndexKeys
    THEN [h EXCEPT ![target][prop] = value,
                   ![target]["length"] =
                       IF parseFloat(prop).n >= @.n THEN Num(parseFloat(prop).n + 1)
                       ELSE @]
    ELSE [h EXCEPT ![target][prop] = value]

\* delete target[prop], which no handler of the proxy intercepts
DeleteProperty(h, target, prop) == [h EXCEPT ![target][prop] = Hole]

\* the scopes (class Bindings) of the model and the name they bind; scope
\* s may inherit the scopes after it, as a child element inherits its parents
Scopes == {"s1", "s2", "s3"}
Names == {"p"}
Inheritable(s) == CASE s = "s1" -> {"s1", "s2", "s3"}
                    [] s = "s2" -> {"s3"}
                    [] OTHER -> {}

\* new Binding(name, value)
Binding(name, value) == [name |-> name, value |-> value]

\* the elements of the document handed to init: r holds e1 and e2, e1 holds
\* c1 and c2.  e1 may carry a p:for, whose template roots are then c1 and c2
Originals == {"r", "e1", "e2", "c1", "c2"}
Children(el) == CASE el = "r" -> <<"e1", "e2">>
                  [] el = "e1" -> <<"c1", "c2">>
                  [] OTHER -> <<>>
\* the clone cloneNode(true) makes of template root s for the item at index i
CloneId(s, i) == s \o "#" \o ToString(i)
Clones == {CloneId(s, i) : s \in {"c1", "c2"}, i \in 0..(MaxItems - 1)}
AllElements == Originals \cup Clones
\* the element of the document a clone was made from
SrcOf(el) ==
    IF el \in Originals THEN el
    ELSE CHOOSE s \in {"c1", "c2"} : \E i \in 0..(MaxItems - 1) : CloneId(s, i) = el
\* an element without directives; an attribute is "" when absent
NoAttrs == [pif |-> "", pfor |-> "", pinit |-> "", pvis |-> "", pbind |-> "",
            pon |-> "", value |-> "", text |-> ""]
\* _firstDrawCallbacks.has(element) is false
NoEntry == [has |-> FALSE, cbs |-> <<>>]

\* the data given to make_observable: root = {list: [...], n: 7}, and the
\* objects o1 = {a: 1} and o2 = {a: 2} the array may hold
DataNodes == {"root", "list", "o1", "o2"}
KeysOf(node) == CASE node = "root" -> <<"list", "n">>
                  [] node = "list" -> <<>>
                  [] OTHER -> <<"a">>
\* a property or element of such an object: a reference to an object, or a
\* primitive, which the get handler replaces by an observable valueObject
RefSlot(node) == [ref |-> node, n |-> 0, boxed |-> FALSE]
PrimSlot(k) == [ref |-> "", n |-> k, boxed |-> FALSE]
\* the observables of the callback model: c = make_observable({grid:
\* {num_x: 2}}) with c.grid.num_x read once (g is c.grid, x0 the valueObject
\* of num_x), h = make_observable({}), and the values assigned later
NewId(i) == "v" \o ToString(i)
FreshIds == {NewId(i) : i \in 1..MaxFresh}
ObsIds == {"c", "g", "h", "x0"} \cup FreshIds
PropKeys == {"grid", "num_x"}
InitKind == [o \in ObsIds |-> IF o \in {"c", "g", "h"} THEN "object"
                              ELSE IF o = "x0" THEN "value" ELSE "none"]
InitProperties ==
    [o \in ObsIds |-> [k \in PropKeys |->
        IF o = "c" /\ k = "grid" THEN "g"
        ELSE IF o = "g" /\ k = "num_x" THEN "x0" ELSE ""]]
\* the elements that carry a p:tooltip attribute
Anchors == {"e1", "e2"}
\* plain data: a primitive, an array of plain data, or an object (its keys
\* in names, their values in items)
PrimData(k) == [t |-> "prim", n |-> k, items |-> <<>>, names |-> <<>>]

----------------------------------------------------------------------------
(* The program state as one record, so that a handler and the handlers it  *)
(* calls are operators from state to state.                                *)

World ==
    [heap |-> heap, managedValues |-> managedValues,
     managedProxies |-> managedProxies, nextProxy |-> nextProxy,
     objCallbacks |-> objCallbacks, cbLists |-> cbLists, nextList |-> nextList,
     namedObjCallbacks |-> namedObjCallbacks, done |-> done, stack |-> stack,
     onIntervalCallbacks |-> onIntervalCallbacks, objTextNodes |-> objTextNodes,
     nodeValue |-> nodeValue, entryValueCache |-> entryValueCache,
     elementBindings |-> elementBindings, instances |-> instances, dom |-> dom,
     elementIsCheckbox |-> elementIsCheckbox, elementValue |-> elementValue,
     writeInputValueBack |-> writeInputValueBack, sets |-> 0, controlWrites |-> 0,
     leafAtBind |-> leafAtBind,
     disposers |-> disposers,
     removed |-> removed,
     disposerCalls |-> disposerCalls,
     bindings |-> bindings,
     inherited_bindings |-> inherited_bindings,
     logged |-> 0,
     inputListeners |-> inputListeners,
     recording |-> recording,
     attributes |-> attributes,
     detached |-> detached,
     initializedElements |-> initializedElements,
     trace |-> trace,
     _firstDrawCompleted |-> _firstDrawCompleted,
     _firstDrawCallbacks |-> _firstDrawCallbacks,
     observing |-> observing,
     firstDrawRuns |-> firstDrawRuns,
     intersections |-> intersections,
     firstDrawRegs |-> firstDrawRegs,
     rawData |-> rawData,
     observables |-> observables,
     copied |-> copied,
     seededWith |-> seededWith,
     objKind |-> objKind,
     _parent |-> _parent,
     _callbacks |-> _callbacks,
     _callbacks_ongoing |-> _callbacks_ongoing,
     properties |-> properties,
     removers |-> removers,
     notified |-> <<>>,
     tooltip_element |-> tooltip_element,
     tooltip_time_to_show_timer |-> tooltip_time_to_show_timer,
     tooltipsInBody |-> tooltipsInBody,
     pointerOver |-> pointerOver,
     inDocument |-> inDocument,
     earlyWide |-> earlyWide,
     exc |-> FALSE, calls |-> <<>>,
     ran |-> [n \in Nodes |-> 0], writes |-> [n \in Nodes |-> 0]]

Commit(w) ==
    /\ heap' = w.heap
    /\ managedValues' = w.managedValues
    /\ managedProxies' = w.managedProxies
    /\ nextProxy' = w.nextProxy
    /\ objCallbacks' = w.objCallbacks
    /\ cbLists' = w.cbLists
    /\ nextList' = w.nextList
    /\ namedObjCallbacks' = w.namedObjCallbacks
    /\ done' = w.done
    /\ stack' = w.stack
    /\ onIntervalCallbacks' = w.onIntervalCallbacks
    /\ objTextNodes' = w.objTextNodes
    /\ nodeValue' = w.nodeValue
    /\ entryValueCache' = w.entryValueCache
    /\ elementBindings' = w.elementBindings
    /\ instances' = w.instances
    /\ dom' = w.dom
    /\ elementIsCheckbox' = w.elementIsCheckbox
    /\ elementValue' = w.elementValue
    /\ writeInputValueBack' = w.writeInputValueBack
    /\ sets' = w.sets
    /\ controlWrites' = w.controlWrites
    /\ leafAtBind' = w.leafAtBind
    /\ disposers' = w.disposers
    /\ removed' = w.removed
    /\ disposerCalls' = w.disposerCalls
    /\ bindings' = w.bindings
    /\ inherited_bindings' = w.inherited_bindings
    /\ logged' = w.logged
    /\ inputListeners' = w.inputListeners
    /\ recording' = w.recording
    /\ attributes' = w.attributes
    /\ detached' = w.detached
    /\ initializedElements' = w.initializedElements
    /\ trace' = w.trace
    /\ _firstDrawCompleted' = w._firstDrawCompleted
    /\ _firstDrawCallbacks' = w._firstDrawCallbacks
    /\ observing' = w.observing
    /\ firstDrawRuns' = w.firstDrawRuns
    /\ intersections' = w.intersections
    /\ firstDrawRegs' = w.firstDrawRegs
    /\ rawData' = w.rawData
    /\ observables' = w.observables
    /\ copied' = w.copied
    /\ seededWith' = w.seededWith
    /\ objKind' = w.objKind
    /\ _parent' = w._parent
    /\ _callbacks' = w._callbacks
    /\ _callbacks_ongoing' = w._callbacks_ongoing
    /\ properties' = w.properties
    /\ removers' = w.removers
    /\ notified' = w.notified
    /\ tooltip_element' = w.tooltip_element
    /\ tooltip_time_to_show_timer' = w.tooltip_time_to_show_timer
    /\ tooltipsInBody' = w.tooltipsInBody
    /\ pointerOver' = w.pointerOver
    /\ inDocument' = w.inDocument
    /\ earlyWide' = w.earlyWide
    /\ exc' = w.exc
    /\ calls' = w.calls
    /\ ran' = w.ran
    /\ writes' = w.writes
    /\ firstWrapper' = [obj \in Obj |->
                          IF firstWrapper[obj] # 0 THEN firstWrapper[obj]
                          ELSE w.managedValues[obj]]

\* the model's bounds on what `new Proxy` and `[]` may allocate
InBounds(w) == w.nextProxy <= MaxProxy + 1 /\ w.nextList <= MaxLists + 1

----------------------------------------------------------------------------
(* Manager: the proxy store *)

getUnmanaged(w, obj) ==
    IF obj.t = "proxy" /\ w.managedProxies[obj.n] # ""
    THEN RawV(w.managedProxies[obj.n])
    ELSE obj

\* mutant of ensureManagedObject: the managedValues.has(obj) test is lost, so
\* every call on a raw object creates a proxy
ensureManagedObject_NoCache(w, obj, inheritedCallbacks) ==
    IF obj.t = "proxy" /\ w.managedProxies[obj.n] # ""
    THEN [w |-> w, ret |-> obj]
    ELSE LET p == w.nextProxy
             w2 == [w EXCEPT !.managedValues[obj.o] = p,
                             !.managedProxies[p] = obj.o,
                             !.nextProxy = p + 1]
         IN [w |-> w2, ret |-> ProxyV(p)]

\* inheritedCallbacks is the array passed (0: undefined, i.e. the default [])
ensureManagedObject(w, obj, inheritedCallbacks) ==
    IF obj.t = "proxy" /\ w.managedProxies[obj.n] # ""
    THEN [w |-> w, ret |-> obj]
    ELSE IF w.managedValues[obj.o] = 0
    THEN LET w1 == IF inheritedCallbacks # 0
                      /\ Len(w.cbLists[inheritedCallbacks]) > 0
                   THEN [w EXCEPT !.objCallbacks[obj] = inheritedCallbacks]
                   ELSE w
             p == w.nextProxy
             w2 == [w1 EXCEPT !.managedValues[obj.o] = p,
                              !.managedProxies[p] = obj.o,
                              !.nextProxy = p + 1]
         IN [w |-> w2, ret |-> ProxyV(w2.managedValues[obj.o])]
    ELSE [w |-> w, ret |-> ProxyV(w.managedValues[obj.o])]

manage(w, obj) == ensureManagedObject(w, obj, 0)

\* the proxy's get handler
ProxyGet(w, target, prop) ==
    LET w1 == IF ~w.done THEN [w EXCEPT !.stack = Append(@, <<target, prop>>)]
              ELSE w
        ret == ReflectGet(w1.heap, target, prop)
    IN IF ret.t = "fn" \/ prop \in {"valueOf", "toString", "length"}
       THEN [w |-> w1, ret |-> ret]
       ELSE IF IsObject(ret)
       THEN ensureManagedObject(w1, ret, w1.objCallbacks[RawV(target)])
       ELSE [w |-> [w1 EXCEPT !.done = TRUE], ret |-> ret]

\* registerCallback: the state after the push (the disposer it returns is
\* the pair of the array and the callback)
registerCallback(w, obj, callback, key) ==
    IF key # NoKey
    THEN [w EXCEPT !.namedObjCallbacks[obj][key] = Append(@, callback)]
    ELSE IF w.objCallbacks[obj] = 0
    THEN [w EXCEPT !.objCallbacks[obj] = w.nextList,
                   !.cbLists[w.nextList] = <<callback>>,
                   !.nextList = @ + 1]
    ELSE [w EXCEPT !.cbLists[w.objCallbacks[obj]] = Append(@, callback)]

----------------------------------------------------------------------------
(* EvalStack and the evaluation of an expression against a scope *)

EvalStackBegin(w) == [w EXCEPT !.done = FALSE, !.stack = <<>>]
EvalStackEnd(w) == [w |-> [w EXCEPT !.done = TRUE, !.stack = <<>>], ret |-> w.stack]

\* the + operator on the numbers of the model
Plus(a, b) == IF a.t = "num" /\ b.t = "num" THEN Num(a.n + b.n) ELSE NaN

\* string conversion of a value put into a text
ToStr(v) ==
    CASE v.t = "num" -> ToString(v.n)
      [] v.t = "str" -> v.o
      [] v.t = "bool" -> (IF v.n = 1 THEN "true" ELSE "false")
      [] v.t = "nan" -> "NaN"
      [] v.t = "undef" -> "undefined"
      [] v.t = "hole" -> "undefined"
      [] OTHER -> "[object Object]"

\* r.ret[prop] as the expression evaluator performs it: a managed object is
\* read through its proxy, an unmanaged one directly, a read of a property
\* of undefined throws, a property of a number is undefined
Member(r, prop) ==
    IF r.ret.t = "undef" THEN [r EXCEPT !.threw = TRUE]
    ELSE IF r.ret.t = "proxy"
    THEN ProxyGet(r.w, r.w.managedProxies[r.ret.n], prop) @@ [threw |-> FALSE]
    ELSE IF r.ret.t = "raw"
    THEN [r EXCEPT !.ret = ReflectGet(r.w.heap, r.ret.o, prop)]
    ELSE [r EXCEPT !.ret = Undef]

\* the member accesses r.ret.path[i]. ... .path[Len(path)]
RECURSIVE EvalPath(_, _, _)
EvalPath(r, path, i) ==
    IF i > Len(path) \/ r.threw THEN r
    ELSE EvalPath(Member(r, path[i]), path, i + 1)

\* the expressions of the templates, over the scope's variable x
ExprOf(entry) ==
    CASE entry = "x.a" -> [op |-> "path", p |-> <<"a">>, q |-> <<>>]
      [] entry = "x.b" -> [op |-> "path", p |-> <<"b">>, q |-> <<>>]
      [] entry = "x.a+x.b" -> [op |-> "sum", p |-> <<"a">>, q |-> <<"b">>]
      [] entry = "x.o.a" -> [op |-> "path", p |-> <<"o", "a">>, q |-> <<>>]
      [] entry = "n.a" -> [op |-> "path", p |-> <<"a">>, q |-> <<>>]
      [] entry = "x.length" -> [op |-> "path", p |-> <<"length">>, q |-> <<>>]

\* the right operand of a sum, evaluated after the left one
EvalRight(e, env, l) ==
    IF e.op = "path" \/ l.threw THEN l
    ELSE [EvalPath([l EXCEPT !.ret = env], e.q, 1) EXCEPT !.ret = Plus(l.ret, @)]

\* entryFunctions.get(entry)(bindings_): env is the value bound to x
Evaluate(w, env, entry) ==
    EvalRight(ExprOf(entry), env,
              EvalPath([w |-> w, ret |-> env, threw |-> FALSE], ExprOf(entry).p, 1))

----------------------------------------------------------------------------
(* Manager.replaceMatches: the text nodes *)

Lit(str) == [lit |-> str, entry |-> ""]
Ent(entry) == [lit |-> "", entry |-> entry]

\* templateText of each text node, cut into its literal parts and its {{entry}}
Template(n) ==
    CASE n = "t1" -> <<Ent("x.a")>>
      [] n = "t2" -> <<Ent("x.a+x.b")>>
      [] n = "t3" -> <<Ent("x.o.a")>>
      [] n = "t4" -> <<Lit("a="), Ent("x.a"), Lit(" b="), Ent("x.b")>>
      [] n = "at1" -> <<Ent("x.o.a"), Lit(" "), Ent("x.a+x.b")>>
      [] n = "len" -> <<Ent("x.length")>>
      [] n = "fn" -> <<Ent("x.b")>>
      [] OTHER -> <<Ent("n.a")>>

\* Bindings.getForElement: the value the scope of the node's element binds
\* to the variable of its template (x in the document, n in a clone)
Scope(w, n) == w.elementBindings[n]

IsEntry(piece) == piece.entry # ""
getReplacements(text) ==
    LET es == SelectSeq(text, IsEntry) IN [i \in 1..Len(es) |-> es[i].entry]

\* String.replace("{{"+entry+"}}", value): the first occurrence only
RECURSIVE StringReplace(_, _, _, _)
StringReplace(text, entry, value, i) ==
    IF i > Len(text) THEN text
    ELSE IF text[i].entry = entry THEN [text EXCEPT ![i] = Lit(ToStr(value))]
    ELSE StringReplace(text, entry, value, i + 1)

RECURSIVE ReplaceAllEntries(_, _, _, _)
ReplaceAllEntries(text, entries, cache, i) ==
    IF i > Len(entries) THEN text
    ELSE ReplaceAllEntries(StringReplace(text, entries[i], cache[entries[i]], 1),
                           entries, cache, i + 1)

\* the characters of a text all of whose entries have been replaced
RECURSIVE Flatten(_, _)
Flatten(text, i) ==
    IF i > Len(text) THEN ""
    ELSE (IF IsEntry(text[i]) THEN "{{" \o text[i].entry \o "}}" ELSE text[i].lit)
         \o Flatten(text, i + 1)

\* replace(init), lines 396-399: the cache of the entry against newValue
CacheEntry(r, n, entry, ev) ==
    IF ev.w.entryValueCache[n][entry] # Hole
       /\ StrictEq(ev.w.entryValueCache[n][entry], ev.ret)
    THEN [r EXCEPT !.w = ev.w]
    ELSE [r EXCEPT !.w = [ev.w EXCEPT !.entryValueCache[n][entry] = ev.ret],
                   !.changed = TRUE]

\* mutant of Subscribe: the comparison of the value with the leaf is lost
Subscribe_NoLeafTest(r, n, newValue) ==
    IF Len(r.w.stack) > 0
    THEN [r EXCEPT !.w = registerCallback(EvalStackEnd(r.w).w,
                                          RawV(r.w.stack[Len(r.w.stack)][1]),
                                          Cb("text", n),
                                          r.w.stack[Len(r.w.stack)][2])]
    ELSE [r EXCEPT !.w = EvalStackEnd(r.w).w, !.timed = TRUE]

\* replace(init), lines 405-417: the stack EvalStack.end() returns decides
\* between a listener on its last entry and the polling loop
Subscribe(r, n, newValue) ==
    IF Len(r.w.stack) > 0
       /\ StrictEq(newValue, ReflectGet(r.w.heap, r.w.stack[Len(r.w.stack)][1],
                                        r.w.stack[Len(r.w.stack)][2]))
    THEN [r EXCEPT !.w = registerCallback(EvalStackEnd(r.w).w,
                                          RawV(r.w.stack[Len(r.w.stack)][1]),
                                          Cb("text", n),
                                          r.w.stack[Len(r.w.stack)][2])]
    ELSE [r EXCEPT !.w = EvalStackEnd(r.w).w, !.timed = TRUE]

\* one round of the loop over the entries in replace(init), given the
\* evaluation ev of the entry; a throwing evaluation skips the rest
ReplaceEntry(r, n, init, entry, ev) ==
    IF ev.threw THEN [r EXCEPT !.w = ev.w]
    ELSE IF ~init THEN CacheEntry(r, n, entry, ev)
    ELSE Subscribe(CacheEntry(r, n, entry, ev), n, ev.ret)

\* the loop over the entries; r carries the state, entryValueChanged.size > 0
\* and require_timedIntervalReplacement
RECURSIVE ReplaceLoop(_, _, _, _)
ReplaceLoop(r, n, init, i) ==
    IF i > Len(getReplacements(Template(n))) THEN r
    ELSE ReplaceLoop(
           ReplaceEntry(r, n, init, getReplacements(Template(n))[i],
                        Evaluate(IF init THEN EvalStackBegin(r.w) ELSE r.w,
                                 Scope(r.w, n), getReplacements(Template(n))[i])),
           n, init, i + 1)

\* replace(init), lines 420-433: the polling entry
PollIfRequired(r, n, init) ==
    IF init /\ r.timed
    THEN [r EXCEPT !.w.onIntervalCallbacks = Append(@, Cb("text", n))]
    ELSE r

\* replace(init), lines 435-446: the single write of the node
WriteNode(r, n) ==
    IF ~r.changed THEN r.w
    ELSE [r.w EXCEPT
            !.nodeValue[n] =
                Flatten(ReplaceAllEntries(Template(n), getReplacements(Template(n)),
                                          r.w.entryValueCache[n], 1), 1),
            !.writes[n] = @ + 1]

\* replace(init) of text node n
replace(w, n, init) ==
    WriteNode(PollIfRequired(
                ReplaceLoop([w |-> w, changed |-> FALSE, timed |-> FALSE], n, init, 1),
                n, init), n)

\* replaceMatches(element) for the element whose only text node is n; each
\* call starts from a new, empty entryValueCache
replaceMatches(w, n) ==
    replace([w EXCEPT !.objTextNodes = @ \cup {n},
                      !.entryValueCache[n] = [e \in Entries |-> Hole]], n, TRUE)

----------------------------------------------------------------------------
(* Manager.replaceMatches: the attributes.  An attribute is a node whose    *)
(* nodeValue is attribute.value and whose entryValueCache is valuecache.    *)

\* replaceAll, lines 476-484
replaceAll(w, n) ==
    [w EXCEPT !.nodeValue[n] =
                  Flatten(ReplaceAllEntries(Template(n), getReplacements(Template(n)),
                                            w.entryValueCache[n], 1), 1),
              !.writes[n] = @ + 1]

\* callbackOnValueChange, lines 498-509, given the evaluation ev of its
\* entry: nothing catches what the evaluation throws
RefreshAttr(n, entry, ev) ==
    IF ev.threw THEN [ev.w EXCEPT !.exc = TRUE]
    ELSE IF ev.w.entryValueCache[n][entry] # Hole
            /\ StrictEq(ev.w.entryValueCache[n][entry], ev.ret)
    THEN ev.w
    ELSE replaceAll([ev.w EXCEPT !.entryValueCache[n][entry] = ev.ret], n)

callbackOnValueChange(w, n, entry) ==
    RefreshAttr(n, entry, Evaluate([w EXCEPT !.ran[n] = @ + 1], Scope(w, n), entry))

\* lines 490-534, given the evaluation ev of the entry inside the recording
\* window: the cache, then a listener on the last captured (object, key) or
\* an entry of the polling loop
SubscribeAttr(n, entry, ev) ==
    IF ev.threw THEN [ev.w EXCEPT !.exc = TRUE]
    ELSE IF Len(ev.w.stack) > 0
            /\ StrictEq(ev.ret, ReflectGet(ev.w.heap, ev.w.stack[Len(ev.w.stack)][1],
                                           ev.w.stack[Len(ev.w.stack)][2]))
    THEN registerCallback([EvalStackEnd(ev.w).w
                             EXCEPT !.entryValueCache[n][entry] = ev.ret],
                          RawV(ev.w.stack[Len(ev.w.stack)][1]), AttrCb(n, entry),
                          ev.w.stack[Len(ev.w.stack)][2])
    ELSE [EvalStackEnd(ev.w).w
            EXCEPT !.entryValueCache[n][entry] = ev.ret,
                   !.onIntervalCallbacks = Append(@, AttrCb(n, entry))]

\* the loop over the entries of the attribute, lines 486-535, which an
\* exception leaves
RECURSIVE AttrLoop(_, _, _)
AttrLoop(w, n, i) ==
    IF w.exc \/ i > Len(getReplacements(Template(n))) THEN w
    ELSE AttrLoop(SubscribeAttr(n, getReplacements(Template(n))[i],
                                Evaluate(EvalStackBegin(w), Scope(w, n),
                                         getReplacements(Template(n))[i])),
                  n, i + 1)

\* line 536: the first write of the attribute
FirstReplaceAll(w, n) == IF w.exc THEN w ELSE replaceAll(w, n)

\* replaceMatches(element) for the element whose attribute is n
replaceMatchesAttr(w, n) ==
    FirstReplaceAll(AttrLoop([w EXCEPT !.objTextNodes = @ \cup {n},
                                       !.entryValueCache[n] = [e \in Entries |-> Hole]],
                             n, 1), n)

----------------------------------------------------------------------------
(* Manager.init, p:for: the list engine.  The p:for element is the anchor;  *)
(* dom is the sequence of its following siblings.  The template has         *)
(* NumRoots root elements, the first of which holds the text {{n.a}}.       *)

\* an absent entry of the Map instances
None == [id |-> 0, item |-> Undef]
MapGet(m, key) == IF key \in DOMAIN m THEN m[key] ELSE None
MapSize(m) == Cardinality({key \in DOMAIN m : m[key].id # 0})

\* index-1 and index+1
Minus1(index) == IF index.t = "num" THEN Num(index.n - 1) ELSE NaN
Plus1(index) == IF index.t = "num" THEN Num(index.n + 1) ELSE NaN

\* the clones of the instance created k-th: one element per template root
Clone(k, r) == <<k, r>>
newElements(k) == [r \in 1..NumRoots |-> Clone(k, r)]

\* el.parentElement is not null, and where el then stands
Attached(d, el) == \E i \in 1..Len(d) : d[i] = el
PositionOf(d, el) == CHOOSE i \in 1..Len(d) : d[i] = el

\* an identity for new clones that no instance of the Map carries
FreshId(w) ==
    CHOOSE k \in 1..MaxInst :
       /\ \A key \in IdxKeys : w.instances[key].id # k
       /\ \A j \in 1..(k - 1) : \E key \in IdxKeys : w.instances[key].id = j

\* array.splice(array.indexOf(callback), 1), guarded by indexOf >= 0
RemoveFirst(seq, cb) ==
    IF \E i \in 1..Len(seq) : seq[i] = cb
    THEN LET i == CHOOSE j \in 1..Len(seq) :
                     seq[j] = cb /\ \A m \in 1..(j - 1) : seq[m] # cb
         IN SubSeq(seq, 1, i - 1) \o SubSeq(seq, i + 1, Len(seq))
    ELSE seq

\* the disposers replace(true) returned for text node n
Dispose(w, n) ==
    [w EXCEPT !.namedObjCallbacks =
                  [r \in Ref |-> [key \in Keys |->
                      RemoveFirst(@[r][key], Cb("text", n))]],
              !.onIntervalCallbacks = RemoveFirst(@, Cb("text", n))]

\* the delete function of the instance created k-th
InstanceDelete(w, k) ==
    Dispose([w EXCEPT !.dom = SelectSeq(@, LAMBDA el : el[1] # k),
                      !.disposerCalls[k] = @ + 1],
            CloneText(k))

\* instantiate, lines 896-905: the number of siblings of the anchor the
\* first clone is inserted after
ReferencePosition(d, previous_element, next_element) ==
    IF next_element.id # 0 /\ previous_element.id = 0
       /\ Attached(d, Clone(next_element.id, 1))
    THEN PositionOf(d, Clone(next_element.id, 1)) - 1
    ELSE IF previous_element.id # 0 /\ Attached(d, Clone(previous_element.id, NumRoots))
    THEN PositionOf(d, Clone(previous_element.id, NumRoots))
    ELSE 0

\* instantiate, lines 907-929: every clone goes right after the one before
InsertClones(d, pos, k) ==
    SubSeq(d, 1, pos) \o newElements(k) \o SubSeq(d, pos + 1, Len(d))

\* cloneNode and me.init(newElements): the clones are new elements, whose
\* scope binds the item and whose text is the template's
initClones(w, k, item) ==
    replaceMatches([w EXCEPT !.elementBindings[CloneText(k)] = item,
                             !.disposerCalls[k] = 0,
                             !.objTextNodes = @ \ {CloneText(k)},
                             !.nodeValue[CloneText(k)] =
                                 Flatten(Template(CloneText(k)), 1)],
                   CloneText(k))

\* instantiate once the old instance at the index is gone
instantiateNew(w, item, index, k) ==
    [initClones([w EXCEPT !.dom =
                     InsertClones(@, ReferencePosition(@,
                                        MapGet(w.instances, Minus1(index)),
                                        MapGet(w.instances, Plus1(index))), k)],
                k, item)
       EXCEPT !.instances[index] = [id |-> k, item |-> item]]

instantiate(w, item, index) ==
    instantiateNew(IF w.instances[index].id # 0
                   THEN [InstanceDelete(w, w.instances[index].id)
                           EXCEPT !.instances[index] = None]
                   ELSE w,
                   item, index, FreshId(w))

\* the loop of the container listener on a write of length
RECURSIVE RemoveOutOfBounds(_, _, _)
RemoveOutOfBounds(w, i, newval) ==
    IF newval.t = "num" /\ i > newval.n /\ i >= 0
    THEN RemoveOutOfBounds(
            IF MapGet(w.instances, Num(i - 1)).id # 0
            THEN InstanceDelete(w, MapGet(w.instances, Num(i - 1)).id)
            ELSE w,
            i - 1, newval)
    ELSE w

\* the listener the p:for registers on its container, lines 951-974
ContainerListener(w, property, newval) ==
    IF property = "length" THEN RemoveOutOfBounds(w, MapSize(w.instances), newval)
    ELSE IF parseFloat(property).t = "num" /\ parseFloat(property).n < 0 THEN w
    ELSE instantiate(w, newval, parseFloat(property))

----------------------------------------------------------------------------
(* Manager.init, p:bind: the control bound to the expression x.a *)

\* the conversion to boolean the checked property applies
ToBoolean(v) ==
    CASE v.t = "num" -> v.n # 0
      [] v.t = "str" -> v.o # ""
      [] v.t = "bool" -> v.n = 1
      [] v.t \in {"nan", "undef", "hole"} -> FALSE
      [] OTHER -> TRUE

\* element.checked = v for a checkbox, element.value = v otherwise: the
\* property converts what it is given
SetControl(w, v) ==
    [w EXCEPT !.elementValue = IF w.elementIsCheckbox THEN Bool(ToBoolean(v))
                               ELSE Str(ToStr(v)),
              !.controlWrites = @ + 1]

\* element.value = <the expression>, given the evaluation r of the expression
AssignControl(r) ==
    IF r.threw THEN [r.w EXCEPT !.exc = TRUE] ELSE SetControl(r.w, r.ret)

applyAttributeChangeFromJS2DOM(w) ==
    AssignControl(Evaluate(w, Scope(w, Control), "x.a"))

\* the listener p:bind registers on the leaf, lines 1055-1060
BindListener(w) ==
    IF w.writeInputValueBack THEN w ELSE applyAttributeChangeFromJS2DOM(w)

\* lines 1022-1060, given the evaluation r of the expression inside the
\* recording window: without a valid stack the binding is abandoned
\* lines 1055-1069: the listener on the leaf and the control's input listener
installBind(w, obj, key) ==
    [registerCallback(w, RawV(obj), Cb("bind", 1), key)
       EXCEPT !.inputListeners = @ + 1]

\* mutant of initBindChecked: the comparison of the value with the leaf is lost
initBindChecked_NoLeafTest(r) ==
    IF r.threw THEN [r.w EXCEPT !.exc = TRUE]
    ELSE IF Len(r.w.stack) > 0
    THEN installBind(SetControl(EvalStackEnd(r.w).w, r.ret),
                     r.w.stack[Len(r.w.stack)][1], r.w.stack[Len(r.w.stack)][2])
    ELSE [EvalStackEnd(r.w).w EXCEPT !.logged = @ + 1]

initBindChecked(r) ==
    IF r.threw THEN [r.w EXCEPT !.exc = TRUE]
    ELSE IF Len(r.w.stack) > 0
            /\ StrictEq(r.ret, ReflectGet(r.w.heap, r.w.stack[Len(r.w.stack)][1],
                                          r.w.stack[Len(r.w.stack)][2]))
    THEN installBind(SetControl(EvalStackEnd(r.w).w, r.ret),
                     r.w.stack[Len(r.w.stack)][1], r.w.stack[Len(r.w.stack)][2])
    ELSE [EvalStackEnd(r.w).w EXCEPT !.logged = @ + 1]

\* init of the control, lines 1013-1072
initBind(w) ==
    initBindChecked(Evaluate(EvalStackBegin(w), Scope(w, Control), "x.a"))

----------------------------------------------------------------------------
(* Listener bodies *)

\* the listener "stop" calls the first disposer the application holds (its
\* own, or that of a listener registered before it): indexOf, then splice
StopListening(w, cb) ==
    IF cb.n = "stop" /\ Len(w.disposers) > 0
    THEN IF w.disposers[1].named
         THEN [w EXCEPT !.namedObjCallbacks[w.disposers[1].obj][w.disposers[1].key] =
                            RemoveFirst(@, w.disposers[1].cb)]
         ELSE [w EXCEPT !.cbLists[w.disposers[1].list] =
                            RemoveFirst(@, w.disposers[1].cb)]
    ELSE w

\* a listener of the application: it reads the property it is told about
UserListener(w, cb, obj, property, new_value) ==
    [StopListening(w, cb)
       EXCEPT !.calls = Append(@, [cb |-> cb,
                                   seen |-> ReflectGet(w.heap, obj, property)]),
              !.exc = Throws(cb)]

\* the listener replace(true) registers, (o,p,n)=>{ replace(false) }, and
\* its onIntervalCallback, ()=>{ replace(false) }
TextListener(w, cb) == replace([w EXCEPT !.ran[cb.n] = @ + 1], cb.n, FALSE)

Invoke(w, cb, obj, property, new_value) ==
    CASE cb.k = "user" -> UserListener(w, cb, obj, property, new_value)
      [] cb.k = "text" -> TextListener(w, cb)
      [] cb.k = "for" -> ContainerListener(w, property, new_value)
      [] cb.k = "bind" -> BindListener(w)
      [] cb.k = "attr" -> callbackOnValueChange(w, cb.n, cb.e)

----------------------------------------------------------------------------
(* Notification *)

\* `for(let callback of callbacks)` over the live array of a key
RECURSIVE RunNamed(_, _, _, _, _)
RunNamed(w, target, prop, value, i) ==
    IF w.exc \/ i > Len(w.namedObjCallbacks[RawV(target)][prop]) THEN w
    ELSE RunNamed(Invoke(w, w.namedObjCallbacks[RawV(target)][prop][i],
                         target, prop, value),
                  target, prop, value, i + 1)

\* `for(let callback of callbacks.flat(100))`: a copy of the array
RECURSIVE RunFlat(_, _, _, _, _, _)
RunFlat(w, callbacks, obj, property, new_value, i) ==
    IF w.exc \/ i > Len(callbacks) THEN w
    ELSE RunFlat(Invoke(w, callbacks[i], obj, property, new_value),
                 callbacks, obj, property, new_value, i + 1)

\* (an exception thrown by a listener of the key leaves the set handler
\* before it reaches triggerChange)
triggerChange(w, obj, property, new_value) ==
    IF w.exc \/ w.objCallbacks[RawV(obj)] = 0 THEN w
    ELSE RunFlat(w, w.cbLists[w.objCallbacks[RawV(obj)]], obj, property,
                 new_value, 1)

\* mutant of the set handler: the listeners run before Reflect.set
ProxySet_NotifyFirst(w, target, prop, value) ==
    [triggerChange(RunNamed(w, target, prop, value, 1), target, prop, value)
       EXCEPT !.heap = ReflectSet(@, target, prop, value), !.sets = @ + 1]

\* the proxy's set handler
ProxySet(w, target, prop, value) ==
    triggerChange(RunNamed([w EXCEPT !.heap = ReflectSet(@, target, prop, value),
                                     !.sets = @ + 1],
                           target, prop, value, 1),
                  target, prop, value)

----------------------------------------------------------------------------
(* Operations of the application on the store *)

NoOp == [kind |-> "init", arg |-> Undef, ret |-> Undef, obj |-> "", key |-> "",
         val |-> Undef, named |-> <<>>, wide |-> <<>>, count |-> 0]

\* the object references the application can hold
StoreObjs == {"x", "y"}
KnownRefs == {RawV(obj) : obj \in StoreObjs}
             \cup {ProxyV(p) : p \in {q \in 1..MaxProxy : managedProxies[q] # ""}}

\* the number of registrations made so far
Registered ==
    Len(namedObjCallbacks[RawV("x")]["a"])
    + (IF objCallbacks[RawV("x")] = 0 THEN 0
       ELSE Len(cbLists[objCallbacks[RawV("x")]]))

Manage(v) ==
    LET r == manage(World, v)
    IN /\ InBounds(r.w)
       /\ Commit(r.w)
       /\ lastOp' = [NoOp EXCEPT !.kind = "manage", !.arg = v, !.ret = r.ret]

Unwrap(v) ==
    /\ Commit(World)
    /\ lastOp' = [NoOp EXCEPT !.kind = "unwrap", !.arg = v,
                              !.ret = getUnmanaged(World, v)]

Register(obj, l, key) ==
    /\ Registered < MaxRegs
    /\ LET w == registerCallback(World, RawV(obj), Cb("user", l), key)
       IN InBounds(w) /\ Commit(w)
    /\ lastOp' = [NoOp EXCEPT !.kind = "register", !.obj = obj, !.key = key]

\* wrapper[key] = val
SetProp(obj, key, val) ==
    /\ managedValues[obj] # 0
    /\ Commit(ProxySet(World, obj, key, val))
    /\ lastOp' = [NoOp EXCEPT
            !.kind = "set", !.obj = obj, !.key = key, !.val = val,
            !.named = namedObjCallbacks[RawV(obj)][key],
            !.wide = IF objCallbacks[RawV(obj)] = 0 THEN <<>>
                     ELSE cbLists[objCallbacks[RawV(obj)]]]

\* the read of x.o that wraps the object x.o for the first time
FirstWrap(obj, key) ==
    /\ obj = "x" /\ key = "o"
    /\ heap[obj][key].t = "raw"
    /\ managedValues[heap[obj][key].o] = 0

\* wrapper[key], read outside a recording window
GetProp(obj, key) ==
    /\ managedValues[obj] # 0
    /\ LET r == ProxyGet(World, obj, key)
       IN /\ InBounds(r.w)
          /\ Commit([r.w EXCEPT !.seededWith =
                        IF FirstWrap(obj, key) THEN namedObjCallbacks[RawV(obj)][key]
                        ELSE @])
          /\ lastOp' = [NoOp EXCEPT !.kind = "get", !.obj = obj, !.key = key,
                                    !.ret = r.ret]

\* the data of the application: x.o is y, z is a second object of y's kind,
\* and arr is [y, z]
InitHeap ==
    [obj \in Obj |->
       [key \in Keys |->
          IF IsArray(obj)
          THEN (CASE key = "length" -> Num(2)
                  [] key = IdxKey(0) -> RawV("y")
                  [] key = IdxKey(1) -> RawV("z")
                  [] OTHER -> Hole)
          ELSE (CASE key = "o" -> (IF obj = "x" THEN RawV("y") ELSE Undef)
                  [] key \in {"a", "b"} -> Num(0)
                  [] OTHER -> Hole)]]

\* no object is managed yet
InitUnmanaged ==
    /\ managedValues = [obj \in Obj |-> 0]
    /\ managedProxies = [p \in 1..MaxProxy |-> ""]
    /\ nextProxy = 1
    /\ firstWrapper = [obj \in Obj |-> 0]

\* the control of the document: a text input or a checkbox, empty or unchecked
InitControl(checkbox) ==
    /\ elementIsCheckbox = checkbox
    /\ elementValue = IF checkbox THEN Bool(FALSE) ELSE Str("")

\* a document without directives
NoDocument == attributes = [el \in Originals |-> NoAttrs]
\* no data was given to make_observable
NoObservables ==
    /\ rawData = [node \in DataNodes |-> <<>>]
    /\ observables = {}
    /\ copied = PrimData(0)

\* the Manager after its constructor
InitManager ==
    /\ objCallbacks = [r \in Ref |-> 0]
    /\ cbLists = [l \in 1..MaxLists |-> <<>>]
    /\ nextList = 1
    /\ namedObjCallbacks = [r \in Ref |-> [key \in Keys |-> <<>>]]
    /\ done = TRUE
    /\ stack = <<>>
    /\ exc = FALSE
    /\ onIntervalCallbacks = <<>>
    /\ objTextNodes = {}
    /\ nodeValue = [n \in Nodes |-> Flatten(Template(n), 1)]
    /\ entryValueCache = [n \in Nodes |-> [e \in Entries |-> Hole]]
    /\ instances = [key \in IdxKeys |-> None]
    /\ dom = <<>>
    /\ writeInputValueBack = FALSE
    /\ sets = 0
    /\ controlWrites = 0
    /\ ran = [n \in Nodes |-> 0]
    /\ writes = [n \in Nodes |-> 0]
    /\ leafAtBind = [n \in Nodes |-> Hole]
    /\ calls = <<>>
    /\ disposers = <<>>
    /\ removed = FALSE
    /\ disposerCalls = [k \in 1..MaxInst |-> 0]
    /\ bindings = [s \in Scopes |-> [name \in Names |-> Hole]]
    /\ inherited_bindings = [s \in Scopes |-> <<>>]
    /\ logged = 0
    /\ inputListeners = 0
    /\ recording = FALSE
    /\ detached = {}
    /\ initializedElements = {}
    /\ trace = <<>>
    /\ _firstDrawCompleted = {}
    /\ _firstDrawCallbacks = [el \in AllElements |-> NoEntry]
    /\ observing = {}
    /\ firstDrawRuns = <<>>
    /\ intersections = [el \in AllElements |-> 0]
    /\ firstDrawRegs = <<>>
    /\ seededWith = <<>>
    /\ objKind = InitKind
    /\ _parent = [o \in ObsIds |-> IF o = "g" THEN "c" ELSE IF o = "x0" THEN "g" ELSE ""]
    /\ _callbacks = [o \in ObsIds |-> <<>>]
    /\ _callbacks_ongoing = [o \in ObsIds |-> FALSE]
    /\ properties = InitProperties
    /\ removers = <<>>
    /\ notified = <<>>
    /\ tooltip_element = [a \in Anchors |-> FALSE]
    /\ tooltip_time_to_show_timer = [a \in Anchors |-> FALSE]
    /\ tooltipsInBody = [a \in Anchors |-> 0]
    /\ pointerOver = ""
    /\ inDocument = Anchors
    /\ earlyWide = <<>>
    /\ lastOp = NoOp

InitStore ==
    /\ heap = InitHeap /\ InitUnmanaged /\ InitManager /\ NoDocument /\ NoObservables
    /\ InitControl(FALSE)
    /\ elementBindings = [n \in Nodes |-> Undef]

NextStore ==
    \/ \E v \in KnownRefs : Manage(v)
    \/ \E v \in KnownRefs \cup {Num(0), Undef} : Unwrap(v)
    \/ \E l \in Listeners, key \in {"a", NoKey} : Register("x", l, key)
    \/ \E obj \in StoreObjs, val \in {Num(0), Num(1)} : SetProp(obj, "a", val)
    \/ \E obj \in StoreObjs : GetProp(obj, "o")

SpecStore == InitStore /\ [][NextStore]_vars

----------------------------------------------------------------------------
(* EvalStack used directly: recording windows around reads of the store *)

\* EvalStack.begin()
Begin ==
    /\ Commit([EvalStackBegin(World) EXCEPT !.recording = TRUE])
    /\ lastOp' = [NoOp EXCEPT !.kind = "begin", !.named = stack]

\* EvalStack.end(): the record it returns is kept in lastOp.named
End ==
    /\ Commit([EvalStackEnd(World).w EXCEPT !.recording = FALSE])
    /\ lastOp' = [NoOp EXCEPT !.kind = "end", !.named = EvalStackEnd(World).ret]

\* wrapper[key], read inside or outside a recording window
Read(obj, key) ==
    /\ Len(stack) < MaxStack
    /\ GetProp(obj, key)

InitEval == InitStore

NextEval ==
    \/ \E v \in KnownRefs : Manage(v)
    \/ Begin
    \/ End
    \/ \E obj \in StoreObjs, key \in {"a", "o"} : Read(obj, key)
    \/ \E val \in {Num(0), Num(1)} : SetProp("x", "a", val)

SpecEval == InitEval /\ [][NextEval]_vars

----------------------------------------------------------------------------
(* The disposers of registerCallback, kept and called by the application *)

\* the closure registerCallback returns after the push that led to w: it
\* captures the array it pushed to (the array of (obj, key), or the array
\* objCallbacks maps obj to at that time) and the callback
registerCallbackDisposer(w, obj, callback, key) ==
    [named |-> key # NoKey, obj |-> obj, key |-> key,
     list |-> IF key # NoKey THEN 0 ELSE w.objCallbacks[obj],
     cb |-> callback, called |-> 0]

\* a call of that closure: indexOf(callback), then splice(i, 1)
RunDisposer(w, d) ==
    IF d.named
    THEN [w EXCEPT !.namedObjCallbacks[d.obj][d.key] = RemoveFirst(@, d.cb)]
    ELSE [w EXCEPT !.cbLists[d.list] = RemoveFirst(@, d.cb)]

\* registerCallback, the application keeping the disposer
RegisterKept(obj, l, key) ==
    /\ Len(disposers) < MaxRegs
    /\ LET w == registerCallback(World, RawV(obj), Cb("user", l), key)
           d == registerCallbackDisposer(w, RawV(obj), Cb("user", l), key)
       IN /\ InBounds(w)
          /\ Commit([w EXCEPT !.disposers = Append(@, d)])
    /\ lastOp' = [NoOp EXCEPT !.kind = "register", !.obj = obj, !.key = key]

\* the application calls the i-th disposer it holds (again, if it likes)
CallDisposer(i) ==
    /\ disposers[i].called < MaxDisposerCalls
    /\ Commit([RunDisposer(World, disposers[i])
                 EXCEPT !.disposers[i].called = @ + 1])
    /\ lastOp' = [NoOp EXCEPT !.kind = "dispose", !.count = i]

InitDispose == InitStore

NextDispose ==
    \/ Manage(RawV("x"))
    \/ \E l \in {"f", "g", "stop"}, key \in {"a", NoKey} : RegisterKept("x", l, key)
    \/ \E i \in 1..Len(disposers) : CallDisposer(i)
    \/ \E val \in {Num(0), Num(1)} : SetProp("x", "a", val)

SpecDispose == InitDispose /\ [][NextDispose]_vars

----------------------------------------------------------------------------
(* class Bindings: scopes of named values *)

_addBinding(w, s, binding) ==
    IF w.bindings[s][binding.name] # Hole
    THEN [w EXCEPT !.logged = @ + 1]
    ELSE [w EXCEPT !.bindings[s][binding.name] = binding.value]

\* the loops of add over an array or over the values of a map
RECURSIVE AddEach(_, _, _, _)
AddEach(w, s, bs, i) ==
    IF i > Len(bs) THEN w ELSE AddEach(_addBinding(w, s, bs[i]), s, bs, i + 1)

\* add: form is "array", "map" or "single"; bs holds the bindings given (the
\* one Binding, for "single")
add(w, s, form, bs) ==
    IF form \in {"array", "map"} THEN AddEach(w, s, bs, 1)
    ELSE [w EXCEPT !.bindings[s][bs[1].name] = bs[1].value]

\* _getBindingMap: the names visible from s with the value kept for each, and
\* the number of console.warn calls made on the way
RECURSIVE _getBindingMap(_, _)
iterAndSetBindings(ret, m) ==
    [map |-> [name \in Names |->
                IF ret.map[name] # Hole THEN ret.map[name] ELSE m.map[name]],
     warned |-> ret.warned + m.warned
                + Cardinality({name \in Names :
                     /\ ret.map[name] # Hole /\ m.map[name] # Hole
                     /\ ~StrictEq(m.map[name], ret.map[name])})]

RECURSIVE InheritedMaps(_, _, _, _)
InheritedMaps(w, s, ret, i) ==
    IF i > Len(w.inherited_bindings[s]) THEN ret
    ELSE InheritedMaps(w, s,
            iterAndSetBindings(ret, _getBindingMap(w, w.inherited_bindings[s][i])),
            i + 1)

_getBindingMap(w, s) ==
    InheritedMaps(w, s, [map |-> w.bindings[s], warned |-> 0], 1)

\* inherit: nothing in it throws, so its catch is never entered
inherit(w, s, from) ==
    IF from = s THEN [w EXCEPT !.logged = @ + 1]
    ELSE [w EXCEPT !.inherited_bindings[s] = Append(@, from),
                   !.logged = @ + _getBindingMap(
                        [w EXCEPT !.inherited_bindings[s] = Append(@, from)], s).warned]

\* _getBindingValue: the value found (Hole: none, and the Error is thrown)
RECURSIVE _getBindingValue(_, _, _)
RECURSIVE InheritedValue(_, _, _, _, _)
InheritedValue(w, s, binding_name, ret, i) ==
    IF i > Len(w.inherited_bindings[s]) THEN ret
    ELSE InheritedValue(w, s, binding_name,
            IF _getBindingValue(w, w.inherited_bindings[s][i], binding_name) # Hole
            THEN _getBindingValue(w, w.inherited_bindings[s][i], binding_name)
            ELSE ret,
            i + 1)

_getBindingValue(w, s, binding_name) ==
    IF w.bindings[s][binding_name] # Hole THEN w.bindings[s][binding_name]
    ELSE InheritedValue(w, s, binding_name, Hole, 1)

\* the values the application binds
BoundValues == {Num(1), Num(2)}
Given == {Binding(name, v) : name \in Names, v \in BoundValues}

\* scope.add(...) with one Binding, an array or a map of bindings (a map has
\* one binding per key)
Add(s, form, bs) ==
    /\ form = "single" => Len(bs) = 1
    /\ form = "map" => \A i, j \in 1..Len(bs) : bs[i].name = bs[j].name => i = j
    /\ Commit(add(World, s, form, bs))
    /\ lastOp' = [NoOp EXCEPT !.kind = "add", !.obj = s, !.key = form,
                              !.named = bs]

Inherit(s, from) ==
    /\ Len(inherited_bindings[s]) < MaxInherit
    /\ Commit(inherit(World, s, from))
    /\ lastOp' = [NoOp EXCEPT !.kind = "inherit", !.obj = s, !.key = from]

\* scope._getBindingValue(name).value, as the code of an expression calls it
Resolve(s, binding_name) ==
    /\ Commit([World EXCEPT
                 !.exc = _getBindingValue(World, s, binding_name) = Hole])
    /\ lastOp' = [NoOp EXCEPT !.kind = "resolve", !.obj = s, !.key = binding_name,
                              !.ret = _getBindingValue(World, s, binding_name)]

InitBindings == InitStore

NextBindings ==
    \/ \E s \in Scopes, form \in {"single", "array", "map"}, n \in 1..MaxAdd :
          \E bs \in [1..n -> Given] : Add(s, form, bs)
    \/ \E s \in Scopes : \E from \in Inheritable(s) : Inherit(s, from)
    \/ \E s \in Scopes, name \in Names : Resolve(s, name)

SpecBindings == InitBindings /\ [][NextBindings]_vars

\* the order in which a scope's own Map yields its names
NameOrder == <<"p">>

\* the names of the flattened binding map of scope s
MapNames(w, s) == {name \in Names : _getBindingMap(w, s).map[name] # Hole}

\* the mutation of AfterInherited that forgets the inherited names
AfterInherited_Forget(w, from, acc) == acc

\* expand, lines 200-205: after an inherited scope was expanded, the names
\* of its flattened map join existing_bindings
AfterInherited(w, from, acc) ==
    [acc EXCEPT !.existing = @ \cup MapNames(w, from)]

\* expand, lines 206-209: the scope's own names not in existing_bindings
\* are declared (and do not join existing_bindings)
ExpandOwn(w, s, acc) ==
    [acc EXCEPT !.decls = @ \o SelectSeq(NameOrder,
                    LAMBDA name : /\ w.bindings[s][name] # Hole
                                  /\ name \notin acc.existing)]

\* expand(bindings_varname, existing_bindings): acc.decls holds the names
\* the header declares so far, one entry per let, and acc.existing the
\* shared existing_bindings
RECURSIVE expand(_, _, _)
RECURSIVE ExpandInherited(_, _, _, _)
ExpandInherited(w, s, acc, i) ==
    IF i > Len(w.inherited_bindings[s]) THEN acc
    ELSE ExpandInherited(w, s,
            AfterInherited(w, w.inherited_bindings[s][i],
                           expand(w, w.inherited_bindings[s][i], acc)),
            i + 1)

expand(w, s, acc) == ExpandOwn(w, s, ExpandInherited(w, s, acc, 1))

\* scope.expand(varname), as replaceMatches and the directives call it; the
\* _getBindingMap of line 197 warns of the conflicts it meets
Expand(s) ==
    /\ Commit([World EXCEPT !.logged = _getBindingMap(World, s).warned])
    /\ lastOp' = [NoOp EXCEPT !.kind = "expand", !.obj = s,
                     !.named = expand(World, s, [decls |-> <<>>, existing |-> {}]).decls]

InitExpand == InitStore

NextExpand ==
    \/ \E s \in Scopes, b \in Given : Add(s, "single", <<b>>)
    \/ \E s \in Scopes : \E from \in Inheritable(s) : Inherit(s, from)
    \/ \E s \in Scopes : Expand(s)

SpecExpand == InitExpand /\ [][NextExpand]_vars

----------------------------------------------------------------------------
(* Operations on a document with text nodes bound to {{...}} over x *)

\* the value of an entry on the data as it is now, read without any proxy
CurrentValue(entry) ==
    Evaluate(World, RawV("x"), entry).ret

\* init of the element that owns text node n (its replaceMatches call)
BindText(n) ==
    /\ n \notin objTextNodes
    /\ Cardinality(objTextNodes) < MaxBound
    /\ LET w == replaceMatches(World, n)
       IN /\ InBounds(w)
          /\ Commit([w EXCEPT !.leafAtBind[n] =
                       CurrentValue(getReplacements(Template(n))[1])])
    /\ lastOp' = [NoOp EXCEPT !.kind = "bind", !.key = n]

\* x.o.a = val: the get handler of x, then the set handler of the object read
NestedSet(val) ==
    /\ managedValues["x"] # 0
    /\ IsObject(heap["x"]["o"])
    /\ LET r == ProxyGet(World, "x", "o")
           target == r.w.managedProxies[r.ret.n]
       IN /\ InBounds(r.w)
          /\ Commit(ProxySet(r.w, target, "a", val))
          /\ lastOp' = [NoOp EXCEPT !.kind = "set", !.obj = target, !.key = "a",
                                    !.val = val]

\* me._onIntervalCallbacks.forEach((f)=>f())
RECURSIVE RunInterval(_, _)
RunInterval(w, i) ==
    IF w.exc \/ i > Len(w.onIntervalCallbacks) THEN w
    ELSE RunInterval(IF w.onIntervalCallbacks[i].k = "attr"
                     THEN callbackOnValueChange(w, w.onIntervalCallbacks[i].n,
                                                w.onIntervalCallbacks[i].e)
                     ELSE TextListener(w, w.onIntervalCallbacks[i]),
                     i + 1)

\* one period of the setInterval timer of the constructor
Tick ==
    /\ Commit(RunInterval(World, 1))
    /\ lastOp' = [NoOp EXCEPT !.kind = "tick"]

\* the application has wrapped x and bound it in the scope of the document
InitText ==
    /\ heap = InitHeap
    /\ InitManager /\ NoDocument /\ NoObservables
    /\ InitControl(FALSE)
    /\ elementBindings = [n \in Nodes |-> IF n \in DocNodes THEN ProxyV(1) ELSE Undef]
    /\ managedValues = [obj \in Obj |-> IF obj = "x" THEN 1 ELSE 0]
    /\ managedProxies = [p \in 1..MaxProxy |-> IF p = 1 THEN "x" ELSE ""]
    /\ nextProxy = 2
    /\ firstWrapper = managedValues

NextText ==
    \/ \E n \in DocNodes : BindText(n)
    \/ \E val \in {Num(0), Num(1), NaN} : SetProp("x", "a", val)
    \/ \E val \in {Num(0), Num(1)} : SetProp("x", "b", val)
    \/ \E obj \in {"y", "z"} : SetProp("x", "o", RawV(obj))
    \/ \E val \in {Num(0), Num(1)} : NestedSet(val)
    \/ Tick

SpecText == InitText /\ [][NextText]_vars

----------------------------------------------------------------------------
(* Operations on a document whose text nodes read the length of a managed   *)
(* array (node len, whose scope binds x to the wrapper of arr) and a method *)
(* of a managed object (node fn, which reads x.b where x.b is a function)   *)

InitWhitelist ==
    /\ heap = [InitHeap EXCEPT !["x"]["b"] = Fn]
    /\ InitManager /\ NoDocument /\ NoObservables
    /\ InitControl(FALSE)
    /\ elementBindings = [n \in Nodes |->
                            CASE n = "len" -> ProxyV(2)
                              [] n = "fn" -> ProxyV(1)
                              [] OTHER -> Undef]
    /\ managedValues = [obj \in Obj |-> CASE obj = "x" -> 1 [] obj = "arr" -> 2
                                          [] OTHER -> 0]
    /\ managedProxies = [p \in 1..MaxProxy |-> CASE p = 1 -> "x" [] p = 2 -> "arr"
                                                 [] OTHER -> ""]
    /\ nextProxy = 3
    /\ firstWrapper = managedValues

NextWhitelist ==
    \/ \E n \in WhitelistNodes : BindText(n)
    \/ \E len \in 0..2 : SetProp("arr", "length", Num(len))
    \/ \E i \in 0..1 : SetProp("arr", IdxKey(i), RawV("y"))
    \/ \E val \in {Fn, Num(1)} : SetProp("x", "b", val)
    \/ \E val \in {Num(0), Num(1)} : SetProp("x", "a", val)
    \/ Tick

SpecWhitelist == InitWhitelist /\ [][NextWhitelist]_vars

----------------------------------------------------------------------------
(* Operations on a document with text nodes and an attribute whose          *)
(* expressions may lose their precise dependency or throw                   *)

\* init of the element that carries attribute n (its replaceMatches call)
BindAttr(n) ==
    /\ n \notin objTextNodes
    /\ Cardinality(objTextNodes) < MaxBound
    /\ InBounds(replaceMatchesAttr(World, n))
    /\ Commit(replaceMatchesAttr(World, n))
    /\ lastOp' = [NoOp EXCEPT !.kind = "bind", !.key = n]

\* the application has wrapped x and bound it in the scope of the document
InitFallback ==
    /\ heap = InitHeap
    /\ InitManager /\ NoDocument /\ NoObservables
    /\ InitControl(FALSE)
    /\ elementBindings = [n \in Nodes |-> IF n \in DocNodes \cup AttrNodes
                                          THEN ProxyV(1) ELSE Undef]
    /\ managedValues = [obj \in Obj |-> IF obj = "x" THEN 1 ELSE 0]
    /\ managedProxies = [p \in 1..MaxProxy |-> IF p = 1 THEN "x" ELSE ""]
    /\ nextProxy = 2
    /\ firstWrapper = managedValues

NextFallback ==
    \/ \E n \in DocNodes : BindText(n)
    \/ \E n \in AttrNodes : BindAttr(n)
    \/ \E val \in {Num(0), Num(1), NaN} : SetProp("x", "a", val)
    \/ SetProp("x", "b", Num(1))
    \/ SetProp("x", "o", Undef)
    \/ NestedSet(NaN)
    \/ Tick

SpecFallback == InitFallback /\ [][NextFallback]_vars

----------------------------------------------------------------------------
(* Operations on a document with a p:for over arr.  No listener of this     *)
(* document throws.                                                         *)

ArrLength(w) == w.heap["arr"]["length"].n

\* the p:for element has been initialised
ForBound == objCallbacks[RawV("arr")] # 0

\* ... and its disposers have not been called
ForLive == ForBound /\ ~removed

\* instantiate(item,index) for the item the iterator read through the proxy
instantiateRead(r, i) == instantiate(r.w, r.ret, Num(i))

\* for(let [index,item] of container.entries())
RECURSIVE InstantiateAll(_, _)
InstantiateAll(w, i) ==
    IF i >= ArrLength(w) THEN w
    ELSE InstantiateAll(instantiateRead(ProxyGet(w, "arr", IdxKey(i)), i), i + 1)

\* init of the p:for element, lines 843-981
initFor(w) ==
    registerCallback(InstantiateAll(ensureManagedObject(w, RawV("arr"), 0).w, 0),
                     RawV("arr"), Cb("for", 1), NoKey)

\* Array.prototype.push on the wrapper: Set(O, len, v), Set(O, "length", len+1)
ArrayPush(w, v, len) ==
    ProxySet(ProxySet(w, "arr", IdxKey(len), v), "arr", "length", Num(len + 1))

\* the end of pop and shift: DeletePropertyOrThrow(O, len-1), Set(O, "length", len-1)
DropLast(w, len) ==
    ProxySet([w EXCEPT !.heap = DeleteProperty(@, "arr", IdxKey(len - 1))],
             "arr", "length", Num(len - 1))

\* Array.prototype.pop on the wrapper
ArrayPop(w, len) ==
    IF len = 0 THEN ProxySet(w, "arr", "length", Num(0))
    ELSE DropLast(ProxyGet(w, "arr", IdxKey(len - 1)).w, len)

\* Set(O, k-1, Get(O, k))
ShiftMove(r, k) == ProxySet(r.w, "arr", IdxKey(k - 1), r.ret)

\* the loop of Array.prototype.shift over k = 1 .. len-1
RECURSIVE ShiftLoop(_, _, _)
ShiftLoop(w, k, len) ==
    IF k >= len THEN w
    ELSE IF w.heap["arr"][IdxKey(k)] # Hole
    THEN ShiftLoop(ShiftMove(ProxyGet(w, "arr", IdxKey(k)), k), k + 1, len)
    ELSE ShiftLoop([w EXCEPT !.heap = DeleteProperty(@, "arr", IdxKey(k - 1))],
                   k + 1, len)

\* Array.prototype.shift on the wrapper
ArrayShift(w, len) ==
    IF len = 0 THEN ProxySet(w, "arr", "length", Num(0))
    ELSE DropLast(ShiftLoop(ProxyGet(w, "arr", IdxKey(0)).w, 1, len), len)

\* wrapper[i].a = val, given the read r of wrapper[i]
FieldSet(r, val) == ProxySet(r.w, r.w.managedProxies[r.ret.n], "a", val)

\* the values the application stores into the array
Items == {RawV("x"), RawV("z")}

ForOp(kind, key, val, w) ==
    /\ lastOp.count < MaxOps
    /\ InBounds(w)
    /\ Commit(w)
    /\ lastOp' = [NoOp EXCEPT !.kind = kind, !.key = key, !.val = val,
                              !.count = lastOp.count + 1]

BindFor == ~ForBound /\ ForOp("bindFor", "", Undef, initFor(World))

Push(v) ==
    /\ ArrLength(World) <= MaxIdx
    /\ ForOp("push", IdxKey(ArrLength(World)), v,
             ArrayPush(World, v, ArrLength(World)))

Pop == ForOp("pop", "", Undef, ArrayPop(World, ArrLength(World)))

Shift == ForOp("shift", "", Undef, ArrayShift(World, ArrLength(World)))

\* wrapper[i] = v
SetIndex(i, v) == ForOp("setIndex", IdxKey(i), v, ProxySet(World, "arr", IdxKey(i), v))

\* wrapper.length = len
SetLength(len) ==
    ForOp("setLength", "length", Num(len), ProxySet(World, "arr", "length", Num(len)))

\* wrapper[i].a = val, for an element that is an object
SetField(i, val) ==
    /\ IsObject(ReflectGet(heap, "arr", IdxKey(i)))
    /\ ForOp("setField", IdxKey(i), val,
             FieldSet(ProxyGet(World, "arr", IdxKey(i)), val))

\* wrapper[key] = v for a key that is not an index: a name, or -1
SetKey(key, v) == ForOp("setKey", key, v, ProxySet(World, "arr", key, v))

ForTick == ForOp("tick", "", Undef, RunInterval(World, 1))

\* the disposer of lines 976-980: delete() of every instance the Map holds
RECURSIVE DeleteInstances(_, _)
DeleteInstances(w, keys) ==
    IF keys = {} THEN w
    ELSE DeleteInstances(InstanceDelete(w, w.instances[CHOOSE key \in keys : TRUE].id),
                         keys \ {CHOOSE key \in keys : TRUE})

\* the disposers init returned for the p:for element, called in order:
\* regCBrm, which takes the container listener out of its array, then the
\* disposer of lines 976-980
removeFor(w) ==
    DeleteInstances([w EXCEPT !.cbLists[w.objCallbacks[RawV("arr")]] =
                                  RemoveFirst(@, Cb("for", 1)),
                              !.removed = TRUE],
                    {key \in IdxKeys : w.instances[key].id # 0})

TeardownFor ==
    /\ ForBound
    /\ ~removed
    /\ ForOp("teardown", "", Undef, removeFor(World))

\* the application has wrapped arr = [y, z] and bound it in the document's scope
InitFor ==
    /\ heap = InitHeap
    /\ InitManager /\ NoDocument /\ NoObservables
    /\ InitControl(FALSE)
    /\ elementBindings = [n \in Nodes |-> Undef]
    /\ managedValues = [obj \in Obj |-> IF obj = "arr" THEN 1 ELSE 0]
    /\ managedProxies = [p \in 1..MaxProxy |-> IF p = 1 THEN "arr" ELSE ""]
    /\ nextProxy = 2
    /\ firstWrapper = managedValues

NextFor ==
    \/ BindFor
    \/ \E v \in Items : Push(v)
    \/ Pop
    \/ Shift
    \/ \E i \in 0..MaxIdx, v \in Items : SetIndex(i, v)
    \/ \E len \in 0..(MaxIdx + 1) : SetLength(len)
    \/ \E i \in 0..MaxIdx, val \in {Num(0), Num(1)} : SetField(i, val)
    \/ \E key \in {"a", "-1"}, v \in Items : SetKey(key, v)
    \/ ForTick
    \/ TeardownFor

SpecFor == InitFor /\ [][NextFor]_vars

----------------------------------------------------------------------------
(* Operations on a document with a control bound by p:bind to x.a *)

\* the control's listener is registered: the binding was not abandoned
Bound ==
    \E i \in 1..Len(namedObjCallbacks[RawV("x")]["a"]) :
       namedObjCallbacks[RawV("x")]["a"][i] = Cb("bind", 1)

\* bindings.x.a = element.value: the set handler of x's wrapper
applyAttributeChangeFromDOM2JS(w) ==
    ProxySet(w, w.managedProxies[Scope(w, Control).n], "a", w.elementValue)

\* the end of the input listener, which an exception does not reach
ResetFlag(w) == IF w.exc THEN w ELSE [w EXCEPT !.writeInputValueBack = FALSE]

\* the input listener, lines 1063-1069
InputHandler(w) ==
    ResetFlag(applyAttributeChangeFromDOM2JS([w EXCEPT !.writeInputValueBack = TRUE]))

\* the part of init after p:bind, line 1174: the control has no text and no
\* {{...}} attribute, so replaceMatches only records the element
initRest(w) == IF w.exc THEN w ELSE [w EXCEPT !.objTextNodes = @ \cup {Control}]

\* init reaches the control
BindControl ==
    /\ Control \notin objTextNodes
    /\ Commit(initRest(initBind(World)))
    /\ lastOp' = [NoOp EXCEPT !.kind = "bindControl"]

\* the user edits the control (toggles it, for a checkbox): the browser
\* changes its value and dispatches input
Input(v) ==
    /\ Bound
    /\ v.t = (IF elementIsCheckbox THEN "bool" ELSE "str")
    /\ v # elementValue
    /\ Commit(InputHandler([World EXCEPT !.elementValue = v]))
    /\ lastOp' = [NoOp EXCEPT !.kind = "input", !.val = v]

\* the application calls every disposer init returned for the control:
\* replaceMatches found no {{...}} on it and p:bind pushed nothing to
\* remove_callbacks (the result of registerCallback at line 1055 is dropped
\* and the input listener is never removed), so the list is empty
TeardownControl ==
    /\ Control \in objTextNodes
    /\ ~removed
    /\ Commit([World EXCEPT !.removed = TRUE])
    /\ lastOp' = [NoOp EXCEPT !.kind = "teardown"]

\* the application has wrapped x and bound the wrapper, or x itself, in the
\* scope of the document; x.a holds a number or NaN
InitBind ==
    /\ \E v \in {Num(0), Num(1), NaN} : heap = [InitHeap EXCEPT !["x"]["a"] = v]
    /\ InitManager /\ NoDocument /\ NoObservables
    /\ \E checkbox \in BOOLEAN : InitControl(checkbox)
    /\ \E scope \in {ProxyV(1), RawV("x")} :
          elementBindings = [n \in Nodes |-> IF n = Control THEN scope ELSE Undef]
    /\ managedValues = [obj \in Obj |-> IF obj = "x" THEN 1 ELSE 0]
    /\ managedProxies = [p \in 1..MaxProxy |-> IF p = 1 THEN "x" ELSE ""]
    /\ nextProxy = 2
    /\ firstWrapper = managedValues

NextBind ==
    \/ BindControl
    \/ \E v \in {Str("0"), Str("1"), Bool(TRUE), Bool(FALSE)} : Input(v)
    \/ \E val \in {Num(0), Num(1)} : SetProp("x", "a", val)
    \/ \E l \in Listeners : Register("x", l, "a")
    \/ TeardownControl

SpecBind == InitBind /\ [][NextBind]_vars

----------------------------------------------------------------------------
(* Manager.init: the directive pass over a list of elements.  Each          *)
(* directive is a step recorded in trace; what p:for, p:bind and the        *)
(* {{...}} binder do to the store is modelled by initFor, initBind and      *)
(* replaceMatches above.  The outcome of evaluating an attribute is part of *)
(* the attribute: "throw" for code that throws, "false" for a falsy p:if.   *)

Step(w, el, step) == [w EXCEPT !.trace = Append(@, <<el, step>>)]
AttrOf(w, el) == w.attributes[SrcOf(el)]

\* a callback handed to _onFirstDraw: the closure of p:init-vis (whose code
\* may throw) or the replaceAll of a value attribute
RunFirstDraw(w, cb) ==
    [w EXCEPT !.firstDrawRuns = Append(@, cb),
              !.exc = cb[2] = "vis" /\ AttrOf(w, cb[1]).pvis = "throw"]

\* the callback is numbered by its registration, as each call of _onFirstDraw
\* is handed a closure of its own
Registered1(w, cb) == [w EXCEPT !.firstDrawRegs = Append(@, cb)]

AfterRegistered(w, element, cb) ==
    IF element \in w._firstDrawCompleted THEN RunFirstDraw(w, cb)
    ELSE IF ~w._firstDrawCallbacks[element].has
    THEN [w EXCEPT !._firstDrawCallbacks[element] = [has |-> TRUE, cbs |-> <<cb>>],
                   !.observing = @ \cup {element}]
    ELSE [w EXCEPT !._firstDrawCallbacks[element].cbs = Append(@, cb)]

_onFirstDraw(w, element, kind) ==
    AfterRegistered(Registered1(w, <<element, kind, Len(w.firstDrawRegs) + 1>>),
                    element, <<element, kind, Len(w.firstDrawRegs) + 1>>)

\* `for(let cb of callbacks){ cb() }`
RECURSIVE RunCallbacks(_, _, _)
RunCallbacks(w, callbacks, i) ==
    IF w.exc \/ i > Len(callbacks) THEN w
    ELSE RunCallbacks(RunFirstDraw(w, callbacks[i]), callbacks, i + 1)

\* after the loop over the callbacks: the entry is deleted and the observer
\* disconnected, unless a callback threw
FirstDrawDone(w, element) ==
    IF w.exc THEN w
    ELSE [w EXCEPT !._firstDrawCallbacks[element] = NoEntry,
                   !.observing = @ \ {element}]

\* the IntersectionObserver callback of element, for one entry
ObserverCallback(w, element, isIntersecting) ==
    IF ~isIntersecting THEN w
    ELSE FirstDrawDone(
           RunCallbacks([w EXCEPT !._firstDrawCompleted = @ \cup {element},
                                  !.intersections[element] = @ + 1],
                        w._firstDrawCallbacks[element].cbs, 1),
           element)

RECURSIVE init(_, _, _)
RECURSIVE replaceMatchesOf(_, _)
RECURSIVE MatchChildren(_, _, _)

\* the attribute loop of replaceMatches for the attribute named value: its
\* {{entry}} is evaluated outside any try, then _onFirstDraw re-applies it
MatchValue(w, el, value) ==
    IF w.exc \/ value = "" THEN w
    ELSE IF value = "throw" THEN [w EXCEPT !.exc = TRUE]
    ELSE _onFirstDraw(w, el, "value")

\* the text nodes of replaceMatches: replace(true) catches what an entry throws
MatchText(w, el, text) ==
    IF text = "" THEN w ELSE Step(w, el, "text")

\* `for(let child of element.children)`: the children still in the element
\* (no clone is a child of an element of the document)
MatchChildren(w, children, i) ==
    IF w.exc \/ i > Len(children) THEN w
    ELSE MatchChildren(IF children[i] \in w.detached THEN w
                       ELSE replaceMatchesOf(w, children[i]),
                       children, i + 1)

\* replaceMatches(element), as init and the application call it
replaceMatchesOf(w, el) ==
    IF w.exc THEN w
    ELSE MatchChildren(MatchValue(MatchText(w, el, AttrOf(w, el).text),
                                  el, AttrOf(w, el).value),
                       Children(el), 1)

\* p:if: evaluated once; a falsy value removes the element and ends its processing
pIf(w, el, p_if_attribute) ==
    CASE p_if_attribute = "" -> [w |-> w, stop |-> FALSE]
      [] p_if_attribute = "throw" ->
            [w |-> [Step(w, el, "if") EXCEPT !.exc = TRUE], stop |-> TRUE]
      [] p_if_attribute = "false" ->
            [w |-> [Step(w, el, "if") EXCEPT !.detached = @ \cup {el}], stop |-> TRUE]
      [] OTHER -> [w |-> Step(w, el, "if"), stop |-> FALSE]

\* the clones instantiate makes for the item at index: one per template root
NewElements(el, index) ==
    [k \in 1..Len(Children(el)) |-> CloneId(Children(el)[k], index)]

\* `for(let [index,item] of container.entries()){ instantiate(item,index) }`:
\* instantiate inserts the clones and runs init on them
RECURSIVE InstantiateEntries(_, _, _)
InstantiateEntries(w, el, index) ==
    IF w.exc \/ index >= w.heap["arr"]["length"].n THEN w
    ELSE InstantiateEntries(init(w, NewElements(el, index), 1), el, index + 1)

\* p:for: "n in arr" has no " of ", "n of nothing" names a null container
pFor(w, el, p_for_attribute) ==
    CASE p_for_attribute = "" -> [w |-> w, stop |-> FALSE]
      [] p_for_attribute = "n in arr" ->
            [w |-> [w EXCEPT !.logged = @ + 1], stop |-> TRUE]
      [] p_for_attribute = "n of nothing" -> [w |-> w, stop |-> TRUE]
      [] OTHER -> [w |-> InstantiateEntries(Step(w, el, "for"), el, 0),
                   stop |-> FALSE]

\* p:init: what its code throws is logged and thrown again
pInit(w, el, p_init_attribute) ==
    IF w.exc \/ p_init_attribute = "" THEN w
    ELSE IF p_init_attribute = "throw"
    THEN [Step(w, el, "init") EXCEPT !.logged = @ + 1, !.exc = TRUE]
    ELSE Step(w, el, "init")

pInitVis(w, el, p_init_vis_attribute) ==
    IF w.exc \/ p_init_vis_attribute = "" THEN w
    ELSE _onFirstDraw(w, el, "vis")

\* p:bind on an input whose expression has a precise dependency
pBind(w, el, p_bind_attribute) ==
    IF w.exc \/ p_bind_attribute = "" THEN w ELSE Step(w, el, "bind")

\* p:on-*: addEventListener for each event named
pOn(w, el, events) ==
    IF w.exc \/ events = "" THEN w ELSE Step(w, el, "on")

\* the rest of the loop body, after the children: p:init, p:init-vis, p:bind,
\* p:on-*, replaceMatches
Directives(w, el) ==
    replaceMatchesOf(
      pOn(pBind(pInitVis(pInit(w, el, AttrOf(w, el).pinit),
                         el, AttrOf(w, el).pvis),
                el, AttrOf(w, el).pbind),
          el, AttrOf(w, el).pon),
      el)

\* mutant of AfterFor: the children are initialized after the element's own
\* directives
AfterFor_ChildrenLast(r, el) ==
    IF r.stop \/ r.w.exc THEN r.w
    ELSE init(Directives(r.w, el), Children(el), 1)

\* after the p:for step: `continue`, or the children and then the rest
AfterFor(r, el) ==
    IF r.stop \/ r.w.exc THEN r.w
    ELSE Directives(init(r.w, Children(el), 1), el)

\* after the p:if step: `continue`, or p:for
AfterIf(r, el) ==
    IF r.stop THEN r.w
    ELSE AfterFor(pFor(r.w, el, AttrOf(r.w, el).pfor), el)

\* one iteration of the loop of init
initElement(w, element) ==
    IF element \in w.detached THEN [w EXCEPT !.logged = @ + 1]
    ELSE IF element \in w.initializedElements THEN w
    ELSE AfterIf(pIf([w EXCEPT !.initializedElements = @ \cup {element}],
                     element, AttrOf(w, element).pif),
                 element)

init(w, target_elements, i) ==
    IF w.exc \/ i > Len(target_elements) THEN w
    ELSE init(initElement(w, target_elements[i]), target_elements, i + 1)

\* the document: every element carries its usual directives, and at most
\* one element has one of them replaced by a faulty one
BaseAttrs(el) ==
    CASE el = "r" -> [NoAttrs EXCEPT !.pif = "true", !.pinit = "ok", !.pon = "click",
                                     !.text = "ok"]
      [] el = "e1" -> [NoAttrs EXCEPT !.pfor = "n of arr", !.pinit = "ok",
                                      !.pon = "click"]
      [] OTHER -> [NoAttrs EXCEPT !.pif = "true", !.pinit = "ok", !.pvis = "ok",
                                  !.pbind = "x.a", !.pon = "click",
                                  !.value = "ok", !.text = "ok"]

Faults == {"none", "if false", "if throw", "for invalid", "for null",
           "init throw", "value throw", "text throw", "vis throw"}

WithFault(a, fault) ==
    CASE fault = "if false" -> [a EXCEPT !.pif = "false"]
      [] fault = "if throw" -> [a EXCEPT !.pif = "throw"]
      [] fault = "for invalid" -> [a EXCEPT !.pfor = "n in arr"]
      [] fault = "for null" -> [a EXCEPT !.pfor = "n of nothing"]
      [] fault = "init throw" -> [a EXCEPT !.pinit = "throw"]
      [] fault = "value throw" -> [a EXCEPT !.value = "throw"]
      [] fault = "text throw" -> [a EXCEPT !.text = "throw"]
      [] fault = "vis throw" -> [a EXCEPT !.pvis = "throw"]
      [] OTHER -> a

\* DOMContentLoaded: init(target_elements) on the root of the document
Load ==
    /\ Commit(init(World, <<"r">>, 1))
    /\ lastOp' = [NoOp EXCEPT !.kind = "load", !.count = lastOp.count]

\* the application calls replaceMatches on an element of the document
Rematch(el) ==
    /\ lastOp.count < MaxRematch
    /\ initializedElements # {}
    /\ Commit(replaceMatchesOf(World, el))
    /\ lastOp' = [NoOp EXCEPT !.kind = "rematch", !.obj = el,
                              !.count = lastOp.count + 1]

\* the browser delivers an intersection entry for an observed element
Intersect(el, isIntersecting) ==
    /\ el \in observing
    /\ intersections[el] < MaxSignals
    /\ Commit(ObserverCallback(World, el, isIntersecting))
    /\ lastOp' = [NoOp EXCEPT !.kind = "intersect", !.obj = el,
                              !.count = lastOp.count]

\* the elements that come into view: one of the document, one clone
Visible == {"e2", CloneId("c1", 0)}

InitInit ==
    /\ \E len \in 0..MaxItems : heap = ReflectSet(InitHeap, "arr", "length", Num(len))
    /\ InitUnmanaged /\ InitManager /\ NoObservables
    /\ InitControl(FALSE)
    /\ elementBindings = [n \in Nodes |-> Undef]
    /\ \E at \in Originals, fault \in Faults :
          attributes = [el \in Originals |->
                          IF el = at THEN WithFault(BaseAttrs(el), fault)
                          ELSE BaseAttrs(el)]

NextInit ==
    \/ Load
    \/ \E el \in {"e2"} : Rematch(el)
    \/ \E el \in Visible, isIntersecting \in BOOLEAN : Intersect(el, isIntersecting)

SpecInit == InitInit /\ [][NextInit]_vars

----------------------------------------------------------------------------
(* make_observable and its copyRaw (the observable objects that preceded    *)
(* the Manager).  st is the pair of the data objects and the set of those   *)
(* that were made observable.                                               *)

make_observable(st, node) == [st EXCEPT !.obs = @ \cup {node}]

\* the get handler on property i of node: the value is made observable and
\* stored back, a primitive as a valueObject
handlerGet(st, node, i) ==
    IF st.data[node][i].ref # ""
    THEN make_observable(st, st.data[node][i].ref)
    ELSE [st EXCEPT !.data[node][i].boxed = TRUE]

RECURSIVE copyRaw(_, _)
RECURSIVE CopyElements(_, _, _, _)
RECURSIVE CopyKeys(_, _, _, _)

\* one element of `for(let element of obj)`, given what copying it returned
CopyElement(st, node, i, raw_arr, r) ==
    IF st.data[node][i].ref = ""
    THEN CopyElements(st, node, i + 1, Append(raw_arr, PrimData(st.data[node][i].n)))
    ELSE IF st.data[node][i].ref \notin st.obs
    THEN CopyElements(r.st, node, i + 1, raw_arr)
    ELSE CopyElements(r.st, node, i + 1, Append(raw_arr, r.ret))

\* the array branch: an element that is an object without copyRaw is made
\* observable and copied into the loop variable; the others are pushed
CopyElements(st, node, i, raw_arr) ==
    IF i > Len(st.data[node])
    THEN [st |-> st, ret |-> [t |-> "arr", n |-> 0, items |-> raw_arr, names |-> <<>>]]
    ELSE CopyElement(st, node, i, raw_arr,
                     IF st.data[node][i].ref = "" THEN [st |-> st, ret |-> PrimData(0)]
                     ELSE copyRaw(make_observable(st, st.data[node][i].ref),
                                  st.data[node][i].ref))

\* one key of `for(let key in obj)`, given what copying obj._proxy[key] returned
CopyKey(st, node, i, raw_obj, r) ==
    IF st.data[node][i].ref = ""
    THEN CopyKeys(st, node, i + 1, Append(raw_obj, PrimData(st.data[node][i].n)))
    ELSE CopyKeys(r.st, node, i + 1, Append(raw_obj, r.ret))

\* the object branch, over the public keys that are not callable
CopyKeys(st, node, i, raw_obj) ==
    IF i > Len(st.data[node])
    THEN [st |-> st, ret |-> [t |-> "obj", n |-> 0, items |-> raw_obj,
                              names |-> KeysOf(node)]]
    ELSE CopyKey(st, node, i, raw_obj,
                 IF st.data[node][i].ref = "" THEN [st |-> st, ret |-> PrimData(0)]
                 ELSE copyRaw(handlerGet(st, node, i), st.data[node][i].ref))

copyRaw(st, node) ==
    IF node = "list" THEN CopyElements(st, node, 1, <<>>)
    ELSE CopyKeys(st, node, 1, <<>>)

\* proxy[key] or proxy[index] on an observable object the application holds
ObservableGet(node, i) ==
    /\ node \in observables
    /\ i \in 1..Len(rawData[node])
    /\ Commit([World EXCEPT
          !.rawData = handlerGet([data |-> rawData, obs |-> observables], node, i).data,
          !.observables = handlerGet([data |-> rawData, obs |-> observables], node, i).obs])
    /\ lastOp' = [NoOp EXCEPT !.kind = "get", !.obj = node, !.count = i]

\* proxy.copyRaw()
CopyRaw(node) ==
    /\ node \in observables
    /\ Commit([World EXCEPT
          !.rawData = copyRaw([data |-> rawData, obs |-> observables], node).st.data,
          !.observables = copyRaw([data |-> rawData, obs |-> observables], node).st.obs,
          !.copied = copyRaw([data |-> rawData, obs |-> observables], node).ret])
    /\ lastOp' = [NoOp EXCEPT !.kind = "copyRaw", !.obj = node]

\* after make_observable(root): the array holds up to MaxLen elements, each
\* a primitive or one of the objects
ListElements == {PrimSlot(5), RefSlot("o1"), RefSlot("o2")}
InitCopy ==
    /\ heap = InitHeap /\ InitUnmanaged /\ InitManager /\ NoDocument
    /\ InitControl(FALSE)
    /\ elementBindings = [n \in Nodes |-> Undef]
    /\ \E len \in 0..MaxLen : \E list \in [1..len -> ListElements] :
          rawData = [node \in DataNodes |->
                      CASE node = "root" -> <<RefSlot("list"), PrimSlot(7)>>
                        [] node = "list" -> list
                        [] node = "o1" -> <<PrimSlot(1)>>
                        [] OTHER -> <<PrimSlot(2)>>]
    /\ observables = {"root"}
    /\ copied = PrimData(0)

NextCopy ==
    \/ \E node \in DataNodes, i \in 1..MaxLen : ObservableGet(node, i)
    \/ \E node \in DataNodes : CopyRaw(node)

SpecCopy == InitCopy /\ [][NextCopy]_vars

----------------------------------------------------------------------------
(* make_observable: onChange, the set handler and _applyCallbacks *)

\* make_observable(obj, parent): an object that is observable already keeps
\* its parent and its callbacks
MakeObservable(w, o, isValue, parent) ==
    IF w.objKind[o] # "none" THEN w
    ELSE [w EXCEPT !.objKind[o] = IF isValue THEN "value" ELSE "object",
                   !._parent[o] = parent,
                   !._callbacks[o] = <<>>,
                   !._callbacks_ongoing[o] = FALSE]

\* cb(property, value, target) of the application; "boom" throws
ObsCallback(w, o, l) ==
    [w EXCEPT !.notified = Append(@, [obj |-> o, cb |-> l]),
              !.exc = (l = "boom")]

\* current_target._callbacks.forEach(cb => cb(property, value, target))
RECURSIVE ForEachCallback(_, _, _)
ForEachCallback(w, o, i) ==
    IF i > Len(w._callbacks[o]) THEN w
    ELSE IF ObsCallback(w, o, w._callbacks[o][i]).exc
    THEN ObsCallback(w, o, w._callbacks[o][i])
    ELSE ForEachCallback(ObsCallback(w, o, w._callbacks[o][i]), o, i + 1)

\* the unroll loop over current_context_callbacks_registered
RECURSIVE Unroll(_, _, _)
Unroll(w, registered, i) ==
    IF i > Len(registered) THEN w
    ELSE Unroll([w EXCEPT !._callbacks_ongoing[registered[i]] = FALSE],
                registered, i + 1)

\* _applyCallbacks: the while loop up the parent chain; an exception of a
\* callback leaves the function before the unroll loop
RECURSIVE WhileTarget(_, _, _)
AfterCallbacks(w, current_target, registered) ==
    IF w.exc THEN w
    ELSE WhileTarget(w, w._parent[current_target],
                     Append(registered, current_target))

WhileTarget(w, current_target, registered) ==
    IF current_target = "" \/ w._callbacks_ongoing[current_target]
    THEN Unroll(w, registered, 1)
    ELSE AfterCallbacks(
            ForEachCallback([w EXCEPT !._callbacks_ongoing[current_target] = TRUE],
                            current_target, 1),
            current_target, registered)

_applyCallbacks(w, current_target) == WhileTarget(w, current_target, <<>>)

\* the set handler, lines 263-268: the new value inherits the callbacks of
\* the value the property held
InheritCallbacks(w, old_value, value) ==
    IF old_value = "" THEN w
    ELSE [w EXCEPT !._callbacks[value] = @ \o w._callbacks[old_value]]

\* the set handler for a public property; value is an observable or an
\* object not created yet
handlerSet(w, o, property, value, isValue) ==
    _applyCallbacks(
       [InheritCallbacks(MakeObservable(w, value, isValue, o),
                         w.properties[o][property], value)
          EXCEPT !.properties[o][property] = value],
       value)

\* the value a set creates next
NextFresh == NewId(CHOOSE i \in 1..MaxFresh :
                      /\ objKind[NewId(i)] = "none"
                      /\ \A j \in 1..(i - 1) : objKind[NewId(j)] # "none")

\* proxy[property] = a primitive
SetPrimitive(o, property) ==
    /\ objKind[o] = "object"
    /\ \E q \in FreshIds : objKind[q] = "none"
    /\ Commit(handlerSet(World, o, property, NextFresh, TRUE))
    /\ lastOp' = [NoOp EXCEPT !.kind = "assign", !.obj = o, !.key = property,
                              !.arg = RawV(NextFresh)]

\* proxy[property] = {}
SetPlain(o, property) ==
    /\ objKind[o] = "object"
    /\ \E q \in FreshIds : objKind[q] = "none"
    /\ Commit(handlerSet(World, o, property, NextFresh, FALSE))
    /\ lastOp' = [NoOp EXCEPT !.kind = "assign", !.obj = o, !.key = property,
                              !.arg = RawV(NextFresh)]

\* proxy[property] = an observable the application holds; assigning the
\* value the property holds already is left out (the loop of lines 264-266
\* then appends to the array it iterates)
SetObservable(o, property, value) ==
    /\ objKind[o] = "object"
    /\ objKind[value] = "object"
    /\ properties[o][property] # value
    /\ \A q \in ObsIds :
          Len(handlerSet(World, o, property, value, FALSE)._callbacks[q]) <= MaxCallbacks
    /\ Commit(handlerSet(World, o, property, value, FALSE))
    /\ lastOp' = [NoOp EXCEPT !.kind = "assign", !.obj = o, !.key = property,
                              !.arg = RawV(value)]

\* remove = proxy.onChange(cb)
OnChange(o, l) ==
    /\ objKind[o] # "none"
    /\ Len(removers) < MaxObsRegs
    /\ Commit([World EXCEPT !._callbacks[o] = Append(@, l),
                            !.removers = Append(@, [obj |-> o, cb |-> l,
                                                    called |-> FALSE])])
    /\ lastOp' = [NoOp EXCEPT !.kind = "onChange", !.obj = o, !.key = l]

\* remove(): obj._callbacks = obj._callbacks.filter(c => c !== cb)
Remove(i) ==
    /\ ~removers[i].called
    /\ Commit([World EXCEPT
          !._callbacks[removers[i].obj] =
              SelectSeq(@, LAMBDA c : c # removers[i].cb),
          !.removers[i].called = TRUE])
    /\ lastOp' = [NoOp EXCEPT !.kind = "remove", !.count = i]

InitObserve == InitStore

\* the observables the application works on: c, the object c.grid and the
\* value of c.grid.num_x
Grid == properties["c"]["grid"]
Reached == {"c", Grid, properties[Grid]["num_x"]} \ {""}

NextObserve ==
    \/ SetPrimitive(Grid, "num_x")
    \/ SetPlain("c", "grid")
    \/ \E value \in {"g", "h"} : SetObservable("c", "grid", value)
    \/ \E o \in Reached, l \in {"f", "boom"} : OnChange(o, l)
    \/ \E i \in 1..MaxObsRegs : i <= Len(removers) /\ Remove(i)

SpecObserve == InitObserve /\ [][NextObserve]_vars

----------------------------------------------------------------------------
(* p:tooltip: the handlers init adds to an anchor, and what the browser does *)

\* showTooltip
showTooltip(w, a) ==
    IF w.tooltip_element[a] THEN w
    ELSE [w EXCEPT !.tooltip_element[a] = TRUE, !.tooltipsInBody[a] = @ + 1]

\* the mouseenter listener: the pointer, over no anchor, comes over the
\* anchor (between two anchors the browser delivers the mouseleave first)
MouseEnter(a) ==
    /\ a \in inDocument /\ pointerOver = ""
    /\ Commit([World EXCEPT
          !.pointerOver = a,
          !.tooltip_time_to_show_timer[a] = TRUE])
    /\ lastOp' = [NoOp EXCEPT !.kind = "mouseenter", !.obj = a]

\* the mouseleave listener: the pointer leaves the anchor
MouseLeave(a) ==
    /\ a \in inDocument /\ pointerOver = a
    /\ Commit(IF tooltip_time_to_show_timer[a]
              THEN [World EXCEPT !.pointerOver = "",
                                 !.tooltip_time_to_show_timer[a] = FALSE]
              ELSE IF tooltip_element[a]
              THEN [World EXCEPT !.pointerOver = "",
                                 !.tooltip_element[a] = FALSE,
                                 !.tooltipsInBody[a] = @ - 1]
              ELSE [World EXCEPT !.pointerOver = ""])
    /\ lastOp' = [NoOp EXCEPT !.kind = "mouseleave", !.obj = a]

\* the callback of setTimeout, tooltip_time_to_show_ms after the mouseenter
ShowTimer(a) ==
    /\ tooltip_time_to_show_timer[a]
    /\ Commit(showTooltip([World EXCEPT !.tooltip_time_to_show_timer[a] = FALSE], a))
    /\ lastOp' = [NoOp EXCEPT !.kind = "timer", !.obj = a]

\* the application removes the anchor from the document: no listener of the
\* anchor runs, and the pointer is over it no longer
RemoveAnchor(a) ==
    /\ a \in inDocument
    /\ Commit([World EXCEPT !.inDocument = @ \ {a},
                            !.pointerOver = IF @ = a THEN "" ELSE @])
    /\ lastOp' = [NoOp EXCEPT !.kind = "removeChild", !.obj = a]

\* the application puts the anchor back into the document
InsertAnchor(a) ==
    /\ a \notin inDocument
    /\ Commit([World EXCEPT !.inDocument = @ \cup {a}])
    /\ lastOp' = [NoOp EXCEPT !.kind = "appendChild", !.obj = a]

InitTooltip == InitStore

NextTooltip ==
    \/ \E a \in Anchors : MouseEnter(a)
    \/ \E a \in Anchors : MouseLeave(a)
    \/ \E a \in Anchors : ShowTimer(a)
    \/ \E a \in Anchors : RemoveAnchor(a)
    \/ \E a \in Anchors : InsertAnchor(a)

SpecTooltip == InitTooltip /\ [][NextTooltip]_vars

----------------------------------------------------------------------------
(* Claims on the store *)

\* the listeners a set has to invoke: those of the key, then the object-wide
Expected == lastOp.named \o lastOp.wide
Invoked == [i \in 1..Len(calls) |-> calls[i].cb]

\* C1: manage(o) always returns the same wrapper, manage of a wrapper returns
\* that wrapper, unwrap(manage(o)) = o, and unwrap of a value that is not a
\* known wrapper returns the value unchanged.
C1_WrapIdempotent ==
    /\ \A obj \in Obj :
          managedValues[obj] # 0 =>
             /\ managedProxies[managedValues[obj]] = obj
             /\ managedValues[obj] = firstWrapper[obj]
    /\ \A p \in 1..MaxProxy :
          managedProxies[p] # "" => managedValues[managedProxies[p]] = p
    /\ lastOp.kind = "manage" =>
          /\ lastOp.ret.t = "proxy"
          /\ lastOp.arg.t = "proxy" => lastOp.ret = lastOp.arg
          /\ lastOp.arg.t = "raw" =>
                /\ lastOp.ret.n = firstWrapper[lastOp.arg.o]
                /\ managedProxies[lastOp.ret.n] = lastOp.arg.o
    /\ lastOp.kind = "unwrap" =>
          IF lastOp.arg.t = "proxy"
          THEN lastOp.ret.t = "raw" /\ managedValues[lastOp.ret.o] = lastOp.arg.n
          ELSE lastOp.ret = lastOp.arg

\* C1 witness: manage applied to a wrapper once both objects are wrapped
C1_Witness ==
    /\ lastOp.kind = "manage" /\ lastOp.arg.t = "proxy"
    /\ \A obj \in StoreObjs : managedValues[obj] # 0

C10_ThrowDoesNotAbort ==
    (lastOp.kind = "set" /\ exc) =>
       /\ ReflectGet(heap, lastOp.obj, lastOp.key) = lastOp.val
       /\ Invoked = Expected

----------------------------------------------------------------------------
(* Claims on the text binder *)

\* the template of n with every entry replaced by its current value
ExpectedText(n) ==
    Flatten([i \in 1..Len(Template(n)) |->
               IF IsEntry(Template(n)[i])
               THEN Lit(ToStr(CurrentValue(Template(n)[i].entry)))
               ELSE Template(n)[i]], 1)

\* C2: every bound text node shows the current value of its expressions, at
\* the latest after the next polling tick.
C2_TextShowsCurrentValue ==
    lastOp.kind = "tick" =>
       \A n \in objTextNodes : nodeValue[n] = ExpectedText(n)

\* C3: for the node bound to {{x.a}}, a set of x.a through the wrapper leaves
\* the node showing the new value when it returns, and a set of another
\* property does not run the node's listener.
C3_PreciseUpdate ==
    ("t1" \in objTextNodes /\ lastOp.kind = "set") =>
       IF lastOp.obj = "x" /\ lastOp.key = "a"
       THEN nodeValue["t1"] = ToStr(lastOp.val)
       ELSE ran["t1"] = 0

----------------------------------------------------------------------------
(* Claims on the p:for list engine *)

\* the instance at a key of the Map has its clones in the document
IsAttached(insts, d, key) ==
    /\ insts[key].id # 0
    /\ \A r \in 1..NumRoots : Attached(d, Clone(insts[key].id, r))

\* the key of the Map that holds the instance created k-th
KeyOf(insts, k) == CHOOSE key \in IdxKeys : insts[key].id = k

\* the places where the listeners of text node n are registered
ListenersOf(named, interval, n) ==
    [named |-> {<<r, key>> \in Ref \X Keys :
                   \E i \in 1..Len(named[r][key]) : named[r][key][i] = Cb("text", n)},
     polled |-> \E i \in 1..Len(interval) : interval[i] = Cb("text", n)]

\* C4: after any sequence of push, pop, shift, index writes, length writes
\* and element field writes, the attached instances are exactly one per index
\* in 0..length-1, each bound to the array's current element at that index,
\* and no instance exists for any other key (an entry the Map keeps for nodes
\* it has removed from the document is not counted as an instance).
C4_ListInSync ==
    ForLive =>
       \A key \in IdxKeys :
          IF key.t = "num" /\ key.n < ArrLength(World)
          THEN /\ IsAttached(instances, dom, key)
               /\ getUnmanaged(World, instances[key].item)
                    = getUnmanaged(World, ReflectGet(heap, "arr", IdxKey(key.n)))
          ELSE \A r \in 1..NumRoots : ~Attached(dom, Clone(instances[key].id, r))

\* C5: with instances at indices 0..n-1, a write arr[i] = v (0 <= i < n)
\* re-creates the instance at index i only: the nodes and listeners of every
\* other index are untouched, and the new nodes are placed between those of
\* index i-1 and those of index i+1.
C5_IndexWriteReplacesOne ==
    [][(/\ lastOp'.kind = "setIndex"
        /\ ForLive
        /\ \A j \in 0..(ArrLength(World) - 1) : IsAttached(instances, dom, Num(j))
        /\ parseFloat(lastOp'.key).n < ArrLength(World))
       => LET i == parseFloat(lastOp'.key).n
              n == ArrLength(World)
          IN /\ IsAttached(instances', dom', Num(i))
             /\ instances'[Num(i)].id # instances[Num(i)].id
             /\ \A key \in IdxKeys \ {Num(i)} :
                   /\ instances'[key] = instances[key]
                   /\ instances[key].id # 0 =>
                        ListenersOf(namedObjCallbacks', onIntervalCallbacks',
                                    CloneText(instances[key].id))
                          = ListenersOf(namedObjCallbacks, onIntervalCallbacks,
                                        CloneText(instances[key].id))
             /\ SelectSeq(dom', LAMBDA el : el[1] # instances'[Num(i)].id)
                  = SelectSeq(dom, LAMBDA el : el[1] # instances[Num(i)].id)
             /\ i > 0 =>
                   PositionOf(dom', Clone(instances'[Num(i - 1)].id, NumRoots))
                     < PositionOf(dom', Clone(instances'[Num(i)].id, 1))
             /\ i + 1 < n =>
                   PositionOf(dom', Clone(instances'[Num(i)].id, NumRoots))
                     < PositionOf(dom', Clone(instances'[Num(i + 1)].id, 1))]_vars

\* C6: after a write arr.length = L, no instance with index >= L remains
\* attached and every instance with index < L is untouched, whatever set of
\* indices has instances.
C6_LengthWriteRemoves ==
    [][(lastOp'.kind = "setLength" /\ ForLive)
       => \A key \in IdxKeys \ {NaN} :
             IF key.n >= lastOp'.val.n
             THEN \A r \in 1..NumRoots :
                     instances'[key].id # 0 =>
                        ~Attached(dom', Clone(instances'[key].id, r))
             ELSE /\ instances'[key] = instances[key]
                  /\ IsAttached(instances', dom', key) = IsAttached(instances, dom, key)]_vars

\* C7: the attached nodes of the p:for stand in document order by ascending
\* index, the nodes of one instance are contiguous and in template order,
\* and all of them come after the anchor.
C7_DocumentOrder ==
    ForLive =>
       /\ \A p \in 1..Len(dom) : \E key \in IdxKeys : instances[key].id = dom[p][1]
       /\ \A p, q \in 1..Len(dom) :
             (p < q /\ dom[p][1] # dom[q][1]
                /\ KeyOf(instances, dom[p][1]).t = "num"
                /\ KeyOf(instances, dom[q][1]).t = "num")
             => KeyOf(instances, dom[p][1]).n < KeyOf(instances, dom[q][1]).n
       /\ \A key \in IdxKeys :
             IsAttached(instances, dom, key) =>
                \A r \in 1..(NumRoots - 1) :
                   PositionOf(dom, Clone(instances[key].id, r + 1))
                     = PositionOf(dom, Clone(instances[key].id, r)) + 1

----------------------------------------------------------------------------
(* Claims on p:bind *)

\* what the control holds once it has been given v
Converted(v) == IF elementIsCheckbox THEN Bool(ToBoolean(v)) ELSE Str(ToStr(v))

\* C8: for a bound control, one input event writes the leaf exactly once and
\* does not write the control; one write of the leaf from code writes the
\* control exactly once, with the new value, and does not write the leaf
\* again; so no chain of mutual updates arises.
C8_NoFeedback ==
    Bound =>
       /\ lastOp.kind = "input" =>
             /\ sets = 1
             /\ controlWrites = 0
             /\ heap["x"]["a"] = lastOp.val /\ elementValue = lastOp.val
       /\ lastOp.kind = "set" =>
             /\ sets = 1
             /\ controlWrites = 1
             /\ elementValue = Converted(lastOp.val)

----------------------------------------------------------------------------
(* Claims on teardown *)

\* occurrences of a callback in an array
Count(seq, cb) == Cardinality({i \in 1..Len(seq) : seq[i] = cb})

\* the array a disposer captured, as it is now
ArrayOf(d) ==
    IF d.named THEN namedObjCallbacks[d.obj][d.key] ELSE cbLists[d.list]

\* the registrations of d's callback on d's array whose disposer was not called
LiveLike(d) ==
    {i \in 1..Len(disposers) :
        /\ disposers[i].named = d.named /\ disposers[i].obj = d.obj
        /\ disposers[i].key = d.key /\ disposers[i].list = d.list
        /\ disposers[i].cb = d.cb /\ disposers[i].called = 0}

\* C11: a disposer removes the registration it was returned for and nothing
\* else, and calling it again changes nothing: at any time a function is in
\* an array as many times as it has registrations there whose disposer was
\* never called.
C11_DisposerRemovesOwn ==
    \A i \in 1..Len(disposers) :
       Count(ArrayOf(disposers[i]), disposers[i].cb)
          = Cardinality(LiveLike(disposers[i]))

\* C12: once every disposer of the control's subtree has been called, no
\* later set on the data it observed and no later polling tick writes the
\* control, and the polling loop is as long as before the subtree was
\* initialised (empty).
C12_TeardownSilences ==
    [][removed =>
         /\ lastOp'.kind \in {"set", "tick"} => elementValue' = elementValue
         /\ onIntervalCallbacks' = <<>>]_vars

\* C13: when the disposers init returned for the p:for element have been
\* called, the disposers of every instance the Map holds have run exactly
\* once, those of an instance a length shrink destroyed earlier included.
C13_DisposersRunOnce ==
    (removed /\ lastOp.kind = "teardown") =>
       \A key \in IdxKeys :
          instances[key].id # 0 => disposerCalls[instances[key].id] = 1

----------------------------------------------------------------------------
(* Claims on the scopes *)

\* the value of the first scope that binds the name, looking at the scope
\* itself and then at the scopes it inherits, in the order it inherited them
RECURSIVE FirstMatch(_, _)
FirstMatchFrom(s, name, i) ==
    IF \E j \in i..Len(inherited_bindings[s]) :
          FirstMatch(inherited_bindings[s][j], name) # Hole
    THEN FirstMatch(inherited_bindings[s][
            CHOOSE j \in i..Len(inherited_bindings[s]) :
               /\ FirstMatch(inherited_bindings[s][j], name) # Hole
               /\ \A m \in i..(j - 1) :
                     FirstMatch(inherited_bindings[s][m], name) = Hole], name)
    ELSE Hole
FirstMatch(s, name) ==
    IF bindings[s][name] # Hole THEN bindings[s][name]
    ELSE FirstMatchFrom(s, name, 1)

\* C14: resolve returns the scope's own binding if it has one, else the
\* binding of the first inherited scope, in the order of inheriting, that
\* resolves the name (also when a later one binds another value), and it
\* throws exactly when no reachable scope binds the name.
C14_ResolveFirstMatch ==
    lastOp.kind = "resolve" =>
       /\ lastOp.ret = FirstMatch(lastOp.obj, lastOp.key)
       /\ exc <=> FirstMatch(lastOp.obj, lastOp.key) = Hole

\* C15: an add, in any of its three forms, of a name the scope already binds
\* reports an error, does not throw, and leaves the name bound as it was.
C15_AddKeepsExisting ==
    [][(/\ lastOp'.kind = "add"
        /\ \E i \in 1..Len(lastOp'.named) :
              bindings[lastOp'.obj][lastOp'.named[i].name] # Hole)
       => /\ logged' > 0
          /\ ~exc'
          /\ \A name \in Names :
                bindings[lastOp'.obj][name] # Hole
                   => bindings'[lastOp'.obj][name] = bindings[lastOp'.obj][name]]_vars

----------------------------------------------------------------------------
(* Claims on the fallbacks *)

\* the evaluation of the control's expression inside a recording window, on
\* the data as it is now
BindCapture == Evaluate(EvalStackBegin(World), Scope(World, Control), "x.a")

\* the capture is not empty and its last (object, key) holds the value
Precise(r) ==
    /\ ~r.threw
    /\ Len(r.w.stack) > 0
    /\ StrictEq(r.ret, ReflectGet(heap, r.w.stack[Len(r.w.stack)][1],
                                  r.w.stack[Len(r.w.stack)][2]))

\* the (object, key) pairs and the objects the listener of p:bind is on
BindListenerAt ==
    {<<r, key>> \in Ref \X Keys : Count(namedObjCallbacks[r][key], Cb("bind", 1)) > 0}
BindListenerWide ==
    {l \in 1..MaxLists : Count(cbLists[l], Cb("bind", 1)) > 0}

C19_OtherKeysIgnored ==
    [][(lastOp'.kind = "setKey" /\ ForLive)
       => instances' = instances /\ dom' = dom]_vars

\* the cache of entry e of node n holds the value e has now, if e has one
Fresh(n, e) ==
    \/ Evaluate(World, Scope(World, n), e).threw
    \/ entryValueCache[n][e] = Evaluate(World, Scope(World, n), e).ret

\* the node shows the values its cache holds
ShowsCache(n) ==
    nodeValue[n] = Flatten(ReplaceAllEntries(Template(n), getReplacements(Template(n)),
                                             entryValueCache[n], 1), 1)

\* the entries a polling callback recomputes: its own one for an attribute,
\* all those of the node for a text node
EntriesOf(cb) ==
    IF cb.k = "attr" THEN {cb.e}
    ELSE {getReplacements(Template(cb.n))[i] :
             i \in 1..Len(getReplacements(Template(cb.n)))}

\* C16: when a polling tick has run, every expression that is on the polling
\* loop has been re-evaluated: the cache of its node or attribute holds its
\* current value (unless it cannot be evaluated now) and the node or
\* attribute shows what the cache holds.
C16_PollingUpdates ==
    lastOp.kind = "tick" =>
       \A i \in 1..Len(onIntervalCallbacks) :
          /\ \A e \in EntriesOf(onIntervalCallbacks[i]) :
                Fresh(onIntervalCallbacks[i].n, e)
          /\ ShowsCache(onIntervalCallbacks[i].n)

\* the evaluation of the i-th entry of node n inside a recording window, on
\* the data as it is now
Capture(n, i) ==
    Evaluate(EvalStackBegin(World), Scope(World, n), getReplacements(Template(n))[i])

\* the last captured (object, key)
LastCaptured(r) ==
    <<RawV(r.w.stack[Len(r.w.stack)][1]), r.w.stack[Len(r.w.stack)][2]>>

\* the entries of node n the binder evaluated successfully: the loop of a
\* text node skips an entry that throws, that of an attribute ends there
Evaluated(n) ==
    {i \in 1..Len(getReplacements(Template(n))) :
        IF n \in AttrNodes THEN \A j \in 1..i : ~Capture(n, j).threw
        ELSE ~Capture(n, i).threw}

\* the callback the binder registers for the i-th entry of node n
CallbackOf(n, i) ==
    IF n \in AttrNodes THEN AttrCb(n, getReplacements(Template(n))[i])
    ELSE Cb("text", n)

\* C17: when a text node or an attribute has been bound, each expression
\* that was evaluated successfully has a listener on its last captured
\* (object, key), and only there, exactly if its capture is not empty and
\* that object[key] is identical to its value; the surface has a polling
\* entry exactly if one of these expressions has no listener, and that
\* entry recomputes the expression, so none is left without an update path.
C17_ListenerOrPolling ==
    (lastOp.kind = "bind" /\ lastOp.key \in DocNodes \cup AttrNodes) =>
       /\ \A r \in Ref, key \in Keys :
          \A i \in 1..Len(getReplacements(Template(lastOp.key))) :
             Count(namedObjCallbacks[r][key], CallbackOf(lastOp.key, i))
               = Cardinality({j \in Evaluated(lastOp.key) :
                    /\ CallbackOf(lastOp.key, j) = CallbackOf(lastOp.key, i)
                    /\ Precise(Capture(lastOp.key, j))
                    /\ LastCaptured(Capture(lastOp.key, j)) = <<r, key>>})
       /\ \A l \in 1..MaxLists, i \in 1..Len(getReplacements(Template(lastOp.key))) :
             Count(cbLists[l], CallbackOf(lastOp.key, i)) = 0
       /\ (\E p \in 1..Len(onIntervalCallbacks) : onIntervalCallbacks[p].n = lastOp.key)
             <=> (\E i \in Evaluated(lastOp.key) : ~Precise(Capture(lastOp.key, i)))
       /\ \A i \in Evaluated(lastOp.key) :
             ~Precise(Capture(lastOp.key, i))
                => Count(onIntervalCallbacks, CallbackOf(lastOp.key, i)) > 0

\* a surface with two expressions was bound, one of which got a listener
\* while the other went to the polling loop
C17_Witness ==
    /\ lastOp.kind = "bind"
    /\ \E i, j \in Evaluated(lastOp.key) :
          /\ Precise(Capture(lastOp.key, i))
          /\ Count(namedObjCallbacks[LastCaptured(Capture(lastOp.key, i))[1]]
                                    [LastCaptured(Capture(lastOp.key, i))[2]],
                   CallbackOf(lastOp.key, i)) = 1
          /\ ~Precise(Capture(lastOp.key, j))
          /\ Count(onIntervalCallbacks, CallbackOf(lastOp.key, j)) = 1

\* entry e of node n has, on the data h, the value the cache c holds for it
\* (an entry that cannot be evaluated has no value to differ)
SameAsCached(h, c, n, e) ==
    \/ Evaluate([World EXCEPT !.heap = h], RawV("x"), e).threw
    \/ Evaluate([World EXCEPT !.heap = h], RawV("x"), e).ret = c[n][e]

\* C20: in a set or a polling tick, a bound text node or attribute is
\* written at most once per recompute pass run for it, and not at all when
\* each of its expressions has the value its cache already held.
C20_WriteOnlyOnChange ==
    [][lastOp'.kind \in {"set", "tick"} =>
         \A n \in objTextNodes \cap (DocNodes \cup AttrNodes) :
            /\ writes'[n] <= ran'[n]
            /\ (\A i \in 1..Len(getReplacements(Template(n))) :
                   SameAsCached(heap', entryValueCache, n,
                                getReplacements(Template(n))[i]))
                  => writes'[n] = 0]_vars

----------------------------------------------------------------------------
(* C21: a begin() while a recording window is open is reported (logged)    *)
(* and the recorder reset, instead of the open window's record being       *)
(* dropped without a word.                                                 *)
C21_NestedBeginReported ==
    [][(lastOp'.kind = "begin" /\ recording) => logged' > 0]_vars

----------------------------------------------------------------------------
(* Claims on the directive pass *)

\* the place of a directive in the order the pass has to keep (0: a step
\* the order does not speak of)
Rank(step) ==
    CASE step = "if" -> 1
      [] step = "for" -> 2
      [] step = "init" -> 4
      [] step = "bind" -> 5
      [] step = "on" -> 6
      [] OTHER -> 0
\* the positions of trace that hold a directive of elements of the set els
Events(els) == {i \in 1..Len(trace) : trace[i][1] \in els /\ Rank(trace[i][2]) > 0}
\* the clones the p:for of el creates, the children of el, and the subtree
\* of el: itself, its children, its clones, and theirs
ClonesOf(el) ==
    {CloneId(Children(el)[k], i) : k \in 1..Len(Children(el)), i \in 0..(MaxItems - 1)}
ChildrenOf(el) == {Children(el)[k] : k \in 1..Len(Children(el))}
Below(el) ==
    ChildrenOf(el) \cup ClonesOf(el)
    \cup UNION {ChildrenOf(k) \cup ClonesOf(k) : k \in ChildrenOf(el)}
Subtree(el) == {el} \cup Below(el)

Ancestors(el) == {p \in Originals : el \in Below(p)} \ ClonesOf("e1")
FollowingSiblings(el) ==
    {sb \in Originals :
       \E p \in Originals : \E ka, kb \in 1..Len(Children(p)) :
          ka < kb /\ Children(p)[ka] = el /\ Children(p)[kb] = sb}
\* code of the element throws when init evaluates it
ThrowsInInit(a) == a.pif = "throw" \/ a.pinit = "throw" \/ a.value = "throw"
InTrace(el, step) == \E i \in 1..Len(trace) : trace[i] = <<el, step>>

\* C23: when a directive or {{...}} of an element throws in the pass, the
\* siblings after the element are still initialized and the directives its
\* ancestors have left (here their p:on-*) are still applied.
C23_FailureConfined ==
    lastOp.kind = "load" =>
       \A el \in Originals :
          (el \in initializedElements /\ ThrowsInInit(attributes[el])) =>
             /\ \A sb \in FollowingSiblings(el) : sb \in initializedElements
             /\ \A p \in Ancestors(el) : InTrace(p, "on")

\* C24: an element whose p:for has no " of " gets the error logged, its
\* children initialized and its p:init, p:bind and p:on-* applied.
C24_InvalidForSkipsOnlyFor ==
    lastOp.kind = "load" =>
       \A el \in Originals :
          (el \in initializedElements /\ attributes[el].pfor = "n in arr") =>
             /\ logged > 0
             /\ \A c \in ChildrenOf(el) : c \in initializedElements
             /\ attributes[el].pinit # "" => InTrace(el, "init")
             /\ attributes[el].pbind # "" => InTrace(el, "bind")
             /\ attributes[el].pon # "" => InTrace(el, "on")

\* the number of runs of a first-draw callback, and the positions of
\* firstDrawRuns that belong to an element
Runs(cb) == Cardinality({i \in 1..Len(firstDrawRuns) : firstDrawRuns[i] = cb})
RunsOf(el) == {i \in 1..Len(firstDrawRuns) : firstDrawRuns[i][1] = el}

\* C25: a callback handed to _onFirstDraw has not run while its element has
\* had no intersecting signal, has run exactly once as soon as the element
\* has had one, and the callbacks of one element run in registration order.
C25_FirstDrawOnce ==
    /\ \A k \in 1..Len(firstDrawRegs) :
          Runs(firstDrawRegs[k]) =
             IF intersections[firstDrawRegs[k][1]] = 0 THEN 0 ELSE 1
    /\ \A el \in AllElements : \A i, j \in RunsOf(el) :
          i < j => firstDrawRuns[i][3] < firstDrawRuns[j][3]

----------------------------------------------------------------------------
(* Claims on copyRaw *)

\* the plain data an object of rawData stands for
RECURSIVE Plain(_, _)
Plain(d, node) ==
    [t |-> IF node = "list" THEN "arr" ELSE "obj", n |-> 0,
     items |-> [i \in 1..Len(d[node]) |->
                  IF d[node][i].ref # "" THEN Plain(d, d[node][i].ref)
                  ELSE PrimData(d[node][i].n)],
     names |-> KeysOf(node)]

\* C26: copyRaw returns plain data equal to the data that was wrapped: the
\* same keys, the same array lengths and order, primitives out of their
\* value objects, also for objects in an array that were never read through
\* the observable.
C26_CopyRawEqualsData ==
    lastOp.kind = "copyRaw" => copied = Plain(rawData, lastOp.obj)

----------------------------------------------------------------------------
(* C27: a set of x.a whose listeners include one listener that, when        *)
(* notified, calls the disposer of the first listener of the key (itself or *)
(* one registered before it) still invokes every listener registered for    *)
(* the key, and every object-wide one, once per registration.               *)
C27_DisposeWhileNotifying ==
    (/\ lastOp.kind = "set"
     /\ Count(lastOp.named, Cb("user", "stop")) = 1
     /\ Count(lastOp.wide, Cb("user", "stop")) = 0
     /\ disposers[1].named
     /\ disposers[1].cb = lastOp.named[1])
    => \A l \in {"f", "g", "stop"} :
          Count(Invoked, Cb("user", l))
             = Count(lastOp.named, Cb("user", l)) + Count(lastOp.wide, Cb("user", l))

----------------------------------------------------------------------------
(* C28: a text node whose expression only reads the length of a managed     *)
(* array, or a function-valued property of a managed object, has no         *)
(* listener on that (object, key) and is in the polling loop.               *)
C28_WhitelistedReadsNotDependencies ==
    /\ "len" \in objTextNodes =>
          /\ Count(namedObjCallbacks[RawV("arr")]["length"], Cb("text", "len")) = 0
          /\ Count(onIntervalCallbacks, Cb("text", "len")) > 0
    /\ ("fn" \in objTextNodes /\ leafAtBind["fn"] = Fn) =>
          /\ Count(namedObjCallbacks[RawV("x")]["b"], Cb("text", "fn")) = 0
          /\ Count(onIntervalCallbacks, Cb("text", "fn")) > 0

----------------------------------------------------------------------------
(* Listeners registered on x through either of its references, and the     *)
(* child x.o wrapped by a read through the wrapper of x                     *)

\* registerCallback(v, l, key), where v is the raw object or its wrapper
RegisterRef(v, l, key) ==
    /\ Len(disposers) < MaxRegs
    /\ InBounds(registerCallback(World, v, Cb("user", l), key))
    /\ Commit([registerCallback(World, v, Cb("user", l), key)
                 EXCEPT !.disposers =
                    Append(@, registerCallbackDisposer(
                                 registerCallback(World, v, Cb("user", l), key),
                                 v, Cb("user", l), key)),
                        !.earlyWide =
                    IF v.t = "raw" /\ key = NoKey /\ managedValues[v.o] = 0
                    THEN Append(@, [obj |-> v.o, cb |-> Cb("user", l)])
                    ELSE @])
    /\ lastOp' = [NoOp EXCEPT !.kind = "register", !.arg = v, !.key = key]

\* the references to x the application holds
RefsOfX == {RawV("x")} \cup {ProxyV(p) : p \in {q \in 1..MaxProxy : managedProxies[q] = "x"}}

InitListen == InitStore

NextListen ==
    \/ Manage(RawV("x"))
    \/ \E v \in RefsOfX, l \in {"f", "g"}, key \in {"a", "o", NoKey} :
          RegisterRef(v, l, key)
    \/ GetProp("x", "o")
    \/ \E obj \in {"x", "y"}, val \in {Num(0), Num(1)} : SetProp(obj, "a", val)

SpecListen == InitListen /\ [][NextListen]_vars

\* object-wide listeners on x and on its child y, registered with the raw
\* objects before or after they are wrapped
InitNested == InitStore

NextNested ==
    \/ \E obj \in StoreObjs : Manage(RawV(obj))
    \/ \E obj \in StoreObjs, l \in {"f", "g"} : RegisterRef(RawV(obj), l, NoKey)
    \/ GetProp("x", "o")
    \/ \E obj \in StoreObjs : SetProp(obj, "a", Num(1))

SpecNested == InitNested /\ [][NextNested]_vars

----------------------------------------------------------------------------
(* Claims on listeners and the references they are registered with *)

\* the listeners registered with reference v for key, and object-wide
NamedOn(v, key) == namedObjCallbacks[v][key]
WideOn(v) == IF objCallbacks[v] = 0 THEN <<>> ELSE cbLists[objCallbacks[v]]

\* C29: when x.o was first wrapped by a read through the wrapper of x, a set
\* of a property of that child through its wrapper invokes the listeners
\* that were registered on (x, 'o') at the time of the read.
C29_ChildSeededWithKeyListeners ==
    (lastOp.kind = "set" /\ lastOp.obj = "y") =>
       \A i \in 1..Len(seededWith) : Count(Invoked, seededWith[i]) > 0

\* C30: a set of x.a invokes the listeners registered for (x, 'a') or for x
\* with the wrapper of x as it invokes those registered with the raw x.
C30_WrapperRegistrationInvoked ==
    (lastOp.kind = "set" /\ lastOp.obj = "x") =>
       \A l \in {"f", "g"} :
          Count(Invoked, Cb("user", l))
             = Count(NamedOn(RawV("x"), "a"), Cb("user", l))
               + Count(WideOn(RawV("x")), Cb("user", l))
               + Count(NamedOn(ProxyV(managedValues["x"]), "a"), Cb("user", l))
               + Count(WideOn(ProxyV(managedValues["x"])), Cb("user", l))

----------------------------------------------------------------------------
(* Claims on the header of a scope *)

----------------------------------------------------------------------------
(* Claims on the callbacks of observables *)

\* the callbacks of o, and those of o and of its ancestors up to the root,
\* in the order of their arrays
CallsOn(o) == [i \in 1..Len(_callbacks[o]) |-> [obj |-> o, cb |-> _callbacks[o][i]]]
RECURSIVE Upwards(_)
Upwards(o) == IF o = "" THEN <<>> ELSE CallsOn(o) \o Upwards(_parent[o])

\* C32: a set of a property invokes the callbacks of the property's value
\* object, then those of the object whose property was set, then those of
\* each ancestor up to the root, each object's callbacks once.  (Stated for
\* the runs in which no callback throws.)
C32_PropagatesUpwards ==
    (/\ lastOp.kind = "assign"
     /\ \A j \in 1..Len(removers) : removers[j].cb # "boom")
       => notified = CallsOn(lastOp.arg.o) \o Upwards(lastOp.obj)

\* C33: once every remover that onChange returned for a callback has been
\* called, no later set invokes that callback, also when the value it was
\* registered on has been replaced by an assignment in between.
C33_RemovedNeverInvoked ==
    lastOp.kind = "assign" =>
       \A l \in {"f", "boom"} :
          (/\ \E j \in 1..Len(removers) : removers[j].cb = l
           /\ \A j \in 1..Len(removers) : removers[j].cb = l => removers[j].called)
             => \A i \in 1..Len(notified) : notified[i].cb # l

\* C40: when no set is running, _callbacks_ongoing is clear on every
\* observable, also after a set that a callback left by throwing.
C40_GuardClearWhenIdle ==
    \A o \in ObsIds : ~_callbacks_ongoing[o]

----------------------------------------------------------------------------
(* Claims on p:tooltip *)

\* C34: a tooltip element or a pending show timer of an anchor exists only
\* while the pointer is over the anchor and the anchor is in the document,
\* and an anchor never has more than one tooltip element.
C34_TooltipOnlyWhileHovered ==
    \A a \in Anchors :
       /\ tooltipsInBody[a] <= 1
       /\ (tooltipsInBody[a] > 0 \/ tooltip_time_to_show_timer[a])
             => (pointerOver = a /\ a \in inDocument)

----------------------------------------------------------------------------
(* Claims on object-wide listeners of nested objects *)

\* the registrations of listener l made object-wide with the raw object obj
WideRegs(obj, l) ==
    {i \in 1..Len(disposers) :
        /\ ~disposers[i].named
        /\ disposers[i].obj = RawV(obj)
        /\ disposers[i].cb = Cb("user", l)}

\* C35: an object-wide listener registered on the nested object y only is
\* not invoked by a property set on its parent x.
C35_NestedListenerNotInvokedByParent ==
    (lastOp.kind = "set" /\ lastOp.obj = "x") =>
       \A l \in {"f", "g"} :
          (WideRegs("y", l) # {} /\ WideRegs("x", l) = {})
             => Count(Invoked, Cb("user", l)) = 0

\* C36: an object-wide listener registered on a raw object before the
\* object was first wrapped is invoked by every later property set on the
\* object, also when the object was wrapped by a read through its parent.
C36_WrappingKeepsListeners ==
    lastOp.kind = "set" =>
       \A i \in 1..Len(earlyWide) :
          earlyWide[i].obj = lastOp.obj => Count(Invoked, earlyWide[i].cb) > 0

----------------------------------------------------------------------------
(* Claims on the registrations of the directive pass *)

\* C37: after init of the document, the text of an element has been bound
\* by one run of replace(true), which installs its one listener or polling
\* entry, whatever the depth of the element below the root.
C37_OneRegistrationPerText ==
    (lastOp.kind = "load" /\ lastOp.count = 0 /\ ~exc) =>
       \A el \in Originals :
          attributes[el].text = "ok" => Count(trace, <<el, "text">>) <= 1

\* C38: when no binder is running, the recording window is closed and the
\* capture stack is empty, also after a binder whose expression threw.
C38_WindowClosedWhenIdle ==
    done /\ stack = <<>>

\* C39: when the input listener of the p:bind control is not running, its
\* flag writeInputValueBack is clear, also after a run that the write-back
\* or a listener of the data left by throwing.
C39_FlagClearWhenIdle ==
    ~writeInputValueBack

====
